---- MODULE Spec2Model ----
(***************************************************************************)
(* State-machine model of the C++ logging framework (logging.hxx,          *)
(* logging_utils.hxx, ostreamtarget.hxx, example.cpp).                     *)
(*                                                                         *)
(*  - the logger registry: a tree of Logger objects (mName, mTarget,       *)
(*    mParent, mChildren, mLevel), mutated by child / setLevel / setTarget *)
(*  - the log sentries (LogSentry, both template variants) created by      *)
(*    Logger::operator<<, fed by LogSentry::operator<<, ended by the       *)
(*    destructor                                                           *)
(*  - the log targets, observed through the hooks they receive             *)
(*                                                                         *)
(* Strings are sequences of characters, so that size() is Len and          *)
(* concatenation is \o.                                                    *)
(***************************************************************************)
EXTENDS Integers, Sequences, FiniteSets, TLC

(***************************************************************************)
(* Bounds of the model.                                                    *)
(***************************************************************************)
MaxNodes == 3
MaxSentries == 2
MaxPuts == 2
MaxMembers == 3
MaxRouted == 6
MaxThreads == 2

(***************************************************************************)
(* enum TraceLevel / enum LogLevel                                         *)
(***************************************************************************)
LEVEL_TRACE == 0
LEVEL_DEBUG == 1
LEVEL_INFO == LEVEL_DEBUG + 1
LEVEL_WARNING == 3
LEVEL_ERROR == 4
LEVEL_FATAL == 5

TraceLevel == {LEVEL_TRACE, LEVEL_DEBUG}
LogLevel == {LEVEL_INFO, LEVEL_WARNING, LEVEL_ERROR, LEVEL_FATAL}

(***************************************************************************)
(* Input sets.                                                             *)
(***************************************************************************)
nullptr == 0
EmptyName == << >>
RootName == <<"r", "o", "o", "t">>
ChildNames == { <<"s", "v", "c">>, <<"w", "o", "r", "k", "e", "r">> }
\* levels handed to setLevel: any unsigned char is accepted, these are the
\* ones example.cpp uses plus LEVEL_TRACE
LevelArgs == {LEVEL_TRACE, LEVEL_DEBUG, LEVEL_ERROR}
\* the targets of example.cpp, and the one Logger() default-constructs
TargetArgs == {"cout", "cerr"}
DefaultTarget == "dflt"
Targets == TargetArgs \cup {DefaultTarget}
\* from example.cpp: the levels it sets and the levels it logs at
ExampleLevels == {LEVEL_DEBUG, LEVEL_INFO, LEVEL_ERROR}
ExampleMessages == {LEVEL_DEBUG, LEVEL_INFO}
\* values streamed into a sentry
Values == {"v"}
Manip == "endl"

VARIABLES
    NDEBUG,     \* build: is NDEBUG defined?
    traceArg,   \* build: how the Logger type is declared, "TRACING" or "!TRACING"
    mName,      \* Logger::mName,     per logger object
    mTarget,    \* Logger::mTarget,   per logger object
    mParent,    \* Logger::mParent,   per logger object (nullptr for a root)
    mChildren,  \* Logger::mChildren, per logger object: set of <<name, logger>>
    mLevel,     \* Logger::mLevel,    per logger object
    sentries,   \* the LogSentry objects created so far
    hooks,      \* per target: the hook calls it has received, in order
    lastCall,   \* the call just made on a logger: its arguments and outcome
    firstChild, \* history: <<parent, name>> -> what the first child(name) returned
    holders,    \* the targets some shared_ptr outside the loggers points to
    mActiveTarget, \* MultiTarget::mActiveTarget
    mSubtargets,   \* MultiTarget::mSubtargets: per index, the hook calls the
                   \* member at that index has received, in order
    routed,        \* history: the hook calls made on the MultiTarget, each
                   \* with the value mActiveTarget had when it was made
    LockType,   \* build: the LockType of the targets, "NullLock" or "mutex"
    lock,       \* per target: the thread that holds its lock, NoThread if free
    stmt,       \* per thread: the sentries of the statement it is executing
    pending     \* per thread: the call it is in (child, startMessage), and where

regVars == <<mName, mTarget, mParent, mChildren, mLevel>>
buildVars == <<NDEBUG, traceArg>>
multiVars == <<mActiveTarget, mSubtargets, routed>>
lockVars == <<LockType, lock>>
vars == <<NDEBUG, traceArg, mName, mTarget, mParent, mChildren, mLevel,
          sentries, hooks, lastCall, firstChild,
          mActiveTarget, mSubtargets, routed, LockType, lock, stmt, holders,
          pending>>

Loggers == DOMAIN mName
Root == 1

(***************************************************************************)
(* #ifndef NDEBUG / #define TRACING false / #else / #define TRACING true   *)
(***************************************************************************)
TRACING == IF ~NDEBUG THEN FALSE ELSE TRUE

\* the template argument `trace` of the Logger type
trace == IF traceArg = "TRACING" THEN TRACING ELSE ~TRACING

NoCall == [op |-> "none"]

(***************************************************************************)
(* std::map<std::string, std::shared_ptr<Logger>> as a set of entries.     *)
(***************************************************************************)
mapFind(m, k) ==
    IF \E e \in m : e[1] = k THEN (CHOOSE e \in m : e[1] = k)[2] ELSE nullptr

\* mutant: insert_or_assign, the entry of an existing key is replaced
mapInsert_assign(m, k, v) == {e \in m : e[1] # k} \cup {<<k, v>>}

\* std::map::insert: an existing key keeps its entry
mapInsert(m, k, v) ==
    IF \E e \in m : e[1] = k THEN m ELSE m \cup {<<k, v>>}

(***************************************************************************)
(* The registry as a value, so that the methods are functions of it.       *)
(***************************************************************************)
Registry ==
    [mName |-> mName, mTarget |-> mTarget, mParent |-> mParent,
     mChildren |-> mChildren, mLevel |-> mLevel]

\* Logger(name, t, parent, level): the private constructor for child loggers
LoggerChild(reg, id, name, t, parent, level) ==
    [mName     |-> reg.mName @@ (id :> name),
     mTarget   |-> reg.mTarget @@ (id :> t),
     mParent   |-> reg.mParent @@ (id :> parent),
     mChildren |-> reg.mChildren @@ (id :> {}),
     mLevel    |-> reg.mLevel @@ (id :> level)]

\* mutant: a root logger starts at LEVEL_DEBUG
LoggerRoot_debug(t, name) ==
    [mName     |-> (Root :> name),
     mTarget   |-> (Root :> t),
     mParent   |-> (Root :> nullptr),
     mChildren |-> (Root :> {}),
     mLevel    |-> (Root :> LEVEL_DEBUG)]

\* Logger(t, name): the public constructor of a root logger
LoggerRoot(t, name) ==
    [mName     |-> (Root :> name),
     mTarget   |-> (Root :> t),
     mParent   |-> (Root :> nullptr),
     mChildren |-> (Root :> {}),
     mLevel    |-> (Root :> LEVEL_INFO)]

\* Logger(): the default constructor
LoggerDefault ==
    [mName     |-> (Root :> EmptyName),
     mTarget   |-> (Root :> DefaultTarget),
     mParent   |-> (Root :> nullptr),
     mChildren |-> (Root :> {}),
     mLevel    |-> (Root :> LEVEL_INFO)]

\* operator new: the next unused logger object
newLogger(reg) == Cardinality(DOMAIN reg.mName) + 1

\* mutant: mChildren[name] = new Logger(...) on every call
child_overwrite(reg, this, name) ==
    IF Len(name) = 0
    THEN [exc |-> "invalid_argument", ret |-> nullptr, reg |-> reg]
    ELSE LET id   == newLogger(reg)
             made == LoggerChild(reg, id, name, reg.mTarget[this],
                                 this, reg.mLevel[this])
             ins  == [made EXCEPT !.mChildren[this] =
                          {e \in @ : e[1] # name} \cup {<<name, id>>}]
         IN  [exc |-> "none", ret |-> id, reg |-> ins]

\* mutant: the name is not checked
child_noCheck(reg, this, name) ==
    LET found == mapFind(reg.mChildren[this], name)
    IN  IF found = nullptr
        THEN LET id   == newLogger(reg)
                 made == LoggerChild(reg, id, name, reg.mTarget[this],
                                     this, reg.mLevel[this])
                 ins  == [made EXCEPT !.mChildren[this] =
                              mapInsert(@, name, id)]
             IN  [exc |-> "none",
                  ret |-> mapFind(ins.mChildren[this], name),
                  reg |-> ins]
        ELSE [exc |-> "none", ret |-> found, reg |-> reg]

\* mutant: the child is made with the level a root logger starts with
child_rootLevel(reg, this, name) ==
    IF Len(name) = 0
    THEN [exc |-> "invalid_argument", ret |-> nullptr, reg |-> reg]
    ELSE LET found == mapFind(reg.mChildren[this], name)
         IN  IF found = nullptr
             THEN LET id   == newLogger(reg)
                      made == LoggerChild(reg, id, name, reg.mTarget[this],
                                          this, LEVEL_INFO)
                      ins  == [made EXCEPT !.mChildren[this] =
                                   mapInsert(@, name, id)]
                  IN  [exc |-> "none",
                       ret |-> mapFind(ins.mChildren[this], name),
                       reg |-> ins]
             ELSE [exc |-> "none", ret |-> found, reg |-> reg]

\* mutant: a child found under the name is replaced by a new logger
child_replace(reg, this, name) ==
    IF Len(name) = 0
    THEN [exc |-> "invalid_argument", ret |-> nullptr, reg |-> reg]
    ELSE LET id   == newLogger(reg)
             made == LoggerChild(reg, id, name, reg.mTarget[this],
                                 this, reg.mLevel[this])
             ins  == [made EXCEPT !.mChildren[this] =
                          {e \in @ : e[1] # name} \cup {<<name, id>>}]
         IN  [exc |-> "none", ret |-> id, reg |-> ins]

\* mutant: the child is made without a parent link
child_noParent(reg, this, name) ==
    IF Len(name) = 0
    THEN [exc |-> "invalid_argument", ret |-> nullptr, reg |-> reg]
    ELSE LET found == mapFind(reg.mChildren[this], name)
         IN  IF found = nullptr
             THEN LET id   == newLogger(reg)
                      made == LoggerChild(reg, id, name, reg.mTarget[this],
                                          nullptr, reg.mLevel[this])
                      ins  == [made EXCEPT !.mChildren[this] =
                                   mapInsert(@, name, id)]
                  IN  [exc |-> "none",
                       ret |-> mapFind(ins.mChildren[this], name),
                       reg |-> ins]
             ELSE [exc |-> "none", ret |-> found, reg |-> reg]

(***************************************************************************)
(* Logger::child(name): the outcome and the registry after the call.       *)
(***************************************************************************)
child(reg, this, name) ==
    IF Len(name) = 0
    THEN [exc |-> "invalid_argument", ret |-> nullptr, reg |-> reg]
    ELSE LET found == mapFind(reg.mChildren[this], name)
         IN  IF found = nullptr
             THEN LET id   == newLogger(reg)
                      made == LoggerChild(reg, id, name, reg.mTarget[this],
                                          this, reg.mLevel[this])
                      ins  == [made EXCEPT !.mChildren[this] =
                                   mapInsert(@, name, id)]
                  IN  [exc |-> "none",
                       ret |-> mapFind(ins.mChildren[this], name),
                       reg |-> ins]
             ELSE [exc |-> "none", ret |-> found, reg |-> reg]

(***************************************************************************)
(* Logger::name(), parent(), level(), target(): const, return the member.  *)
(***************************************************************************)
nameOf(reg, this) == reg.mName[this]

parentOf(reg, this) == reg.mParent[this]

levelOf(reg, this) == reg.mLevel[this]

targetOf(reg, this) == reg.mTarget[this]

(***************************************************************************)
(* Logger::setLevel(level): sets mLevel and calls setLevel on every child. *)
(***************************************************************************)
\* mutant: the level reaches the direct children only
setLevel_oneDeep(reg, this, level) ==
    [reg EXCEPT !.mLevel = [n \in DOMAIN @ |->
        IF n = this \/ \E e \in reg.mChildren[this] : e[2] = n
        THEN level ELSE @[n]]]

\* mutant: the level is given to every logger of the tree
setLevel_wholeTree(reg, this, level) ==
    [reg EXCEPT !.mLevel = [n \in DOMAIN @ |-> level]]

RECURSIVE setLevel(_, _, _), setLevelChildren(_, _, _)
setLevel(reg, this, level) ==
    setLevelChildren([reg EXCEPT !.mLevel[this] = level],
                     reg.mChildren[this], level)

\* the loop  for (auto i : mChildren) i.second->setLevel(level)
setLevelChildren(reg, todo, level) ==
    IF todo = {}
    THEN reg
    ELSE LET i == CHOOSE e \in todo : TRUE
         IN  setLevelChildren(setLevel(reg, i[2], level), todo \ {i}, level)

(***************************************************************************)
(* Logger::setTarget(t): sets mTarget and calls setTarget on every child.  *)
(***************************************************************************)
\* mutant: the target reaches the direct children only
setTarget_oneDeep(reg, this, t) ==
    [reg EXCEPT !.mTarget = [n \in DOMAIN @ |->
        IF n = this \/ \E e \in reg.mChildren[this] : e[2] = n
        THEN t ELSE @[n]]]

\* mutant: the target is given to every logger of the tree
setTarget_wholeTree(reg, this, t) ==
    [reg EXCEPT !.mTarget = [n \in DOMAIN @ |-> t]]

RECURSIVE setTarget(_, _, _), setTargetChildren(_, _, _)
setTarget(reg, this, t) ==
    setTargetChildren([reg EXCEPT !.mTarget[this] = t],
                      reg.mChildren[this], t)

\* the loop  for (auto &child : mChildren) child.second->setTarget(t)
setTargetChildren(reg, todo, t) ==
    IF todo = {}
    THEN reg
    ELSE LET c == CHOOSE e \in todo : TRUE
         IN  setTargetChildren(setTarget(reg, c[2], t), todo \ {c}, t)

(***************************************************************************)
(* Logger::isEnabled(LogLevel) and Logger::isEnabled(TraceLevel)           *)
(***************************************************************************)
\* mutant: log levels are gated by the trace flag too
isEnabledLogLevel_traceGated(reg, this, level) ==
    (level >= reg.mLevel[this]) /\ trace

isEnabledLogLevel(reg, this, level) == level >= reg.mLevel[this]

\* mutant: the trace flag is not consulted
isEnabledTraceLevel_noFlag(reg, this, level) == level >= reg.mLevel[this]

isEnabledTraceLevel(reg, this, level) == (level >= reg.mLevel[this]) /\ trace

(***************************************************************************)
(* LockType, the base class of a target: NullLock, whose lock() and        *)
(* unlock() are empty, or a blocking lock such as std::mutex.              *)
(***************************************************************************)
NoThread == 0
Threads == DOMAIN stmt
MainThread == 1

\* mutant: lock() never waits
lockBlocks_never(lk, t, th) == FALSE

\* lock() called by thread th has to wait
lockBlocks(lk, t, th) == LockType = "mutex" /\ lk[t] # NoThread

\* lock() returning to thread th
lockAcquire(lk, t, th) ==
    IF LockType = "mutex" THEN [lk EXCEPT ![t] = th] ELSE lk

\* mutant: unlock() of a lock that does not release
lockRelease_keeps(lk, t, th) == {lk}

\* unlock() called by thread th: the possible outcomes.  Unlocking a mutex
\* the calling thread does not hold is undefined: the lock is released or
\* left alone
lockRelease(lk, t, th) ==
    IF LockType = "mutex"
    THEN IF lk[t] = th
         THEN {[lk EXCEPT ![t] = NoThread]}
         ELSE {lk, [lk EXCEPT ![t] = NoThread]}
    ELSE {lk}

(***************************************************************************)
(* Ownership of a target: the loggers hold it by std::shared_ptr<Target>   *)
(* mTarget, and so may the program outside them; a LogSentry holds it by   *)
(* Target &mTarget, which does not keep it alive.                          *)
(***************************************************************************)
\* the use count of target t is not zero: the target has not been destroyed
alive(reg, held, t) ==
    t \in held \/ \E n \in DOMAIN reg.mTarget : reg.mTarget[n] = t

\* what a target has received after a hook call through a reference: the
\* call on a target that has been destroyed is undefined, the target's output
\* shows it or does not
callThrough(live, hk, after) ==
    IF live \/ after = hk THEN {after} ELSE {after, hk}

(***************************************************************************)
(* The hooks of a log target.  A target is observed through the sequence   *)
(* of hook calls it receives; `by` names the calling LogSentry object as   *)
(* <<message, object>>: the sentry that started the message, and the       *)
(* sentry (that one or a copy of it) making the call.                      *)
(***************************************************************************)
NoLevel == 0 - 1

startMessage(hk, t, source, level, by) ==
    [hk EXCEPT ![t] = Append(@, [hook |-> "startMessage",
                                 level |-> level, value |-> "", by |-> by])]

endMessage(hk, t, source, by) ==
    [hk EXCEPT ![t] = Append(@, [hook |-> "endMessage",
                                 level |-> NoLevel, value |-> "", by |-> by])]

\* put(LoggerType const &, ValueT const &v)
put(hk, t, source, v, by) ==
    [hk EXCEPT ![t] = Append(@, [hook |-> "put",
                                 level |-> NoLevel, value |-> v, by |-> by])]

(***************************************************************************)
(* LogSentry<Target, true, LoggerType>: the constructors (one per level    *)
(* enum, same body), operator<< and the destructor.                        *)
(***************************************************************************)
LogSentryActive(hk, id, target, source, level, enabled) ==
    [sentry |-> [outputEnabled |-> TRUE, mTarget |-> target, mSource |-> source,
                 mEnabled |-> enabled, state |-> "open",
                 id |-> id, msg |-> id, level |-> level, asked |-> enabled,
                 nput |-> 0, threw |-> FALSE],
     hooks  |-> IF enabled
                THEN startMessage(hk, target, source, level, <<id, id>>)
                ELSE hk]

\* LogSentry<Target, false, LoggerType>: an empty shell, no members
LogSentryElided(hk, id, target, source, level, enabled) ==
    [sentry |-> [outputEnabled |-> FALSE, mTarget |-> "none", mSource |-> nullptr,
                 mEnabled |-> FALSE, state |-> "open",
                 id |-> id, msg |-> id, level |-> level, asked |-> enabled,
                 nput |-> 0, threw |-> FALSE],
     hooks  |-> hk]

\* selection of the class template specialization by outputEnabled
LogSentry(outputEnabled, hk, id, target, source, level, enabled) ==
    IF outputEnabled
    THEN LogSentryActive(hk, id, target, source, level, enabled)
    ELSE LogSentryElided(hk, id, target, source, level, enabled)

\* LogSentry(LogSentry const &) = default : a member-wise copy, a new object
LogSentryCopy(s, id) == [s EXCEPT !.id = id]

\* mutant: operator<< asks the logger for its target at every call
sentryPut_followsLogger(hk, s, v) ==
    IF s.outputEnabled
    THEN IF s.mEnabled
         THEN put(hk, mTarget[s.mSource], s.mSource, v, <<s.msg, s.id>>)
         ELSE hk
    ELSE hk

\* mutant: operator<< does not test mEnabled
sentryPut_ignoreEnabled(hk, s, v) ==
    IF s.outputEnabled
    THEN put(hk, s.mTarget, s.mSource, v, <<s.msg, s.id>>)
    ELSE hk

\* mutant: the value is put in front of what the target has received
sentryPut_inFront(hk, s, v) ==
    IF s.outputEnabled /\ s.mEnabled
    THEN [hk EXCEPT ![s.mTarget] =
             <<[hook |-> "put", level |-> NoLevel, value |-> v,
                by |-> <<s.msg, s.id>>]>> \o @]
    ELSE hk

\* mutant: operator<< asks the logger for its level at every call
sentryPut_asksLogger(hk, s, v) ==
    IF s.outputEnabled
    THEN IF s.level >= mLevel[s.mSource]
         THEN put(hk, s.mTarget, s.mSource, v, <<s.msg, s.id>>)
         ELSE hk
    ELSE hk

\* LogSentry::operator<<(ValueT const &v), and the overload for manipulators:
\* both call mTarget.put(mSource, v)
sentryPut(hk, s, v) ==
    IF s.outputEnabled
    THEN IF s.mEnabled
         THEN put(hk, s.mTarget, s.mSource, v, <<s.msg, s.id>>)
         ELSE hk
    ELSE hk

\* mutant: the destructor does not end the message
sentryDtor_noEnd(hk, s) == hk

\* mutant: the message is ended by the statement's normal completion only,
\* not when the sentry is destroyed by an exception
sentryDtor_skipOnThrow(hk, s) ==
    IF s.outputEnabled /\ s.mEnabled /\ s.state # "unwinding"
    THEN endMessage(hk, s.mTarget, s.mSource, <<s.msg, s.id>>)
    ELSE hk

\* mutant: the message is ended when the sentry is destroyed by an exception
\* only, not at the normal end of the statement
sentryDtor_onlyOnThrow(hk, s) ==
    IF s.outputEnabled /\ s.mEnabled /\ s.state = "unwinding"
    THEN endMessage(hk, s.mTarget, s.mSource, <<s.msg, s.id>>)
    ELSE hk

\* LogSentry::~LogSentry()
sentryDtor(hk, s) ==
    IF s.outputEnabled
    THEN IF s.mEnabled
         THEN endMessage(hk, s.mTarget, s.mSource, <<s.msg, s.id>>)
         ELSE hk
    ELSE hk

\* mutant: a message at the logger's level is not enabled
shlLogLevel_above(reg, hk, id, this, ll) ==
    LogSentry(TRUE, hk, id, reg.mTarget[this], this, ll, ll > reg.mLevel[this])

\* Logger::operator<<(LogLevel ll)
shlLogLevel(reg, hk, id, this, ll) ==
    LogSentry(TRUE, hk, id, reg.mTarget[this], this, ll, ll >= reg.mLevel[this])

\* mutant: trace messages get the active sentry whatever the trace flag
shlTraceLevel_alwaysActive(reg, hk, id, this, tl) ==
    LogSentry(TRUE, hk, id, reg.mTarget[this], this, tl, tl >= reg.mLevel[this])

\* Logger::operator<<(TraceLevel tl)
shlTraceLevel(reg, hk, id, this, tl) ==
    LogSentry(trace, hk, id, reg.mTarget[this], this, tl, tl >= reg.mLevel[this])

(***************************************************************************)
(* MultiTarget<SubTargets...>.  The members are indexed 0 .. N-1 as the    *)
(* TargetHolder chain indexes them; a member is observed through the hook  *)
(* calls it receives.                                                      *)
(***************************************************************************)
\* TargetHolder<targetIndex, Target>::maxIndex() of the last holder
maxIndex(subs) == Cardinality(DOMAIN subs) - 1

\* void put(manip) of a target: the hook for stream manipulators
putManip(hk, t, manip, by) ==
    [hk EXCEPT ![t] = Append(@, [hook |-> "putManip",
                                 level |-> NoLevel, value |-> manip, by |-> by])]

\* TargetHolder::startMessage(index, source, level): the holder that holds
\* index forwards to its member, the others hand on to the next holder; the
\* last holder forwards whatever the index
RECURSIVE holderStartMessage(_, _, _, _, _, _)
holderStartMessage(subs, targetIndex, index, source, level, by) ==
    IF targetIndex = maxIndex(subs) \/ index = targetIndex
    THEN startMessage(subs, targetIndex, source, level, by)
    ELSE holderStartMessage(subs, targetIndex + 1, index, source, level, by)

RECURSIVE holderEndMessage(_, _, _, _, _)
holderEndMessage(subs, targetIndex, index, source, by) ==
    IF targetIndex = maxIndex(subs) \/ index = targetIndex
    THEN endMessage(subs, targetIndex, source, by)
    ELSE holderEndMessage(subs, targetIndex + 1, index, source, by)

\* mutant: the holder that holds index forwards and hands on as well
RECURSIVE holderPut_fallThrough(_, _, _, _, _, _)
holderPut_fallThrough(subs, targetIndex, index, source, v, by) ==
    IF targetIndex = maxIndex(subs)
    THEN put(subs, targetIndex, source, v, by)
    ELSE IF index = targetIndex
    THEN holderPut_fallThrough(put(subs, targetIndex, source, v, by),
                               targetIndex + 1, index, source, v, by)
    ELSE holderPut_fallThrough(subs, targetIndex + 1, index, source, v, by)

RECURSIVE holderPut(_, _, _, _, _, _)
holderPut(subs, targetIndex, index, source, v, by) ==
    IF targetIndex = maxIndex(subs) \/ index = targetIndex
    THEN put(subs, targetIndex, source, v, by)
    ELSE holderPut(subs, targetIndex + 1, index, source, v, by)

RECURSIVE holderPutManip(_, _, _, _, _)
holderPutManip(subs, targetIndex, index, manip, by) ==
    IF targetIndex = maxIndex(subs) \/ index = targetIndex
    THEN putManip(subs, targetIndex, manip, by)
    ELSE holderPutManip(subs, targetIndex + 1, index, manip, by)

\* MultiTarget(SubTargets... targets)
MultiTarget(n) ==
    [mActiveTarget |-> 0, mSubtargets |-> [i \in 0 .. n - 1 |-> << >>]]

\* MultiTarget::startMessage / endMessage / put / put(manip)
multiStartMessage(active, subs, source, level, by) ==
    holderStartMessage(subs, 0, active, source, level, by)

\* mutant: the message is ended on the member that got its start
multiEndMessage_cached(active, subs, source, by) ==
    LET started == {i \in DOMAIN subs :
                       \E j \in DOMAIN subs[i] :
                          subs[i][j].hook = "startMessage" /\ subs[i][j].by = by}
    IN  holderEndMessage(subs, 0, CHOOSE i \in started : TRUE, source, by)

\* mutant: the message is ended on the first member
multiEndMessage_first(active, subs, source, by) ==
    holderEndMessage(subs, 0, 0, source, by)

multiEndMessage(active, subs, source, by) ==
    holderEndMessage(subs, 0, active, source, by)

multiPut(active, subs, source, v, by) ==
    holderPut(subs, 0, active, source, v, by)

multiPutManip(active, subs, manip, by) ==
    holderPutManip(subs, 0, active, manip, by)

\* mutant: the index is stored before it is checked
setActive_assignFirst(active, subs, index) ==
    IF index > maxIndex(subs)
    THEN [exc |-> "runtime_error", mActiveTarget |-> index]
    ELSE [exc |-> "none", mActiveTarget |-> index]

\* mutant: the index is checked against the number of members
setActive_offByOne(active, subs, index) ==
    IF index > maxIndex(subs) + 1
    THEN [exc |-> "runtime_error", mActiveTarget |-> active]
    ELSE [exc |-> "none", mActiveTarget |-> index]

\* MultiTarget::setActive(index)
setActive(active, subs, index) ==
    IF index > maxIndex(subs)
    THEN [exc |-> "runtime_error", mActiveTarget |-> active]
    ELSE [exc |-> "none", mActiveTarget |-> index]

InitLocks(lockTypes, threads) ==
    /\ LockType \in lockTypes
    /\ lock = [t \in Targets |-> NoThread]
    /\ stmt = [th \in threads |-> {}]
    /\ pending = [th \in threads |-> [pc |-> "idle"]]

InitProgram(traceArgs, roots, members) ==
    /\ NDEBUG \in BOOLEAN
    /\ traceArg \in traceArgs
    /\ \E r \in roots :
          /\ mName = r.mName
          /\ mTarget = r.mTarget
          /\ mParent = r.mParent
          /\ mChildren = r.mChildren
          /\ mLevel = r.mLevel
    /\ sentries = << >>
    /\ hooks = [t \in Targets |-> << >>]
    /\ lastCall = NoCall
    /\ firstChild = << >>
    /\ holders = TargetArgs
    /\ \E n \in members :
          /\ mActiveTarget = MultiTarget(n).mActiveTarget
          /\ mSubtargets = MultiTarget(n).mSubtargets
    /\ routed = << >>

\* one thread, targets without a lock (OStreamTarget's default, NullLock)
InitWith(traceArgs, roots, members) ==
    /\ InitProgram(traceArgs, roots, members)
    /\ InitLocks({"NullLock"}, {MainThread})

\* the program of example.cpp: a root logger named "root" on cout
Init == InitWith({"TRACING"}, {LoggerRoot("cout", RootName)}, {1})

\* a root logger made by either public constructor
InitRegistry ==
    InitWith({"!TRACING"},
             {LoggerRoot("cout", EmptyName), LoggerRoot("cout", RootName),
              LoggerDefault}, {1})

\* every build of a logger type, declared with TRACING or with !TRACING
InitLevels == InitWith({"TRACING", "!TRACING"}, {LoggerRoot("cout", RootName)}, {1})

SetRegistry(reg) ==
    /\ mName' = reg.mName
    /\ mTarget' = reg.mTarget
    /\ mParent' = reg.mParent
    /\ mChildren' = reg.mChildren
    /\ mLevel' = reg.mLevel

\* l->child(name)
Child(this, name) ==
    LET r == child(Registry, this, name)
    IN  /\ Cardinality(DOMAIN r.reg.mName) <= MaxNodes
        /\ SetRegistry(r.reg)
        /\ lastCall' = [op |-> "child", this |-> this, name |-> name,
                        exc |-> r.exc, ret |-> r.ret,
                        created |-> (DOMAIN r.reg.mName # Loggers)]
        /\ firstChild' = IF r.exc # "none" \/ <<this, name>> \in DOMAIN firstChild
                         THEN firstChild
                         ELSE firstChild @@ (<<this, name>> :> r.ret)
        /\ UNCHANGED <<buildVars, holders, pending, lockVars, stmt, multiVars, sentries, hooks>>

\* l->setLevel(level)
SetLevel(this, level) ==
    /\ SetRegistry(setLevel(Registry, this, level))
    /\ lastCall' = [op |-> "setLevel", this |-> this, level |-> level,
                    changed |-> {n \in Loggers : mLevel[n] # level}]
    /\ UNCHANGED <<buildVars, holders, pending, lockVars, stmt, multiVars, sentries, hooks, firstChild>>

\* l->setTarget(t): the caller has a shared_ptr to t
SetTarget(this, t) ==
    /\ alive(Registry, holders, t)
    /\ SetRegistry(setTarget(Registry, this, t))
    /\ lastCall' = [op |-> "setTarget", this |-> this, target |-> t,
                    changed |-> {n \in Loggers : mTarget[n] # t}]
    /\ UNCHANGED <<buildVars, holders, pending, lockVars, stmt, multiVars, sentries, hooks, firstChild>>

\* l->isEnabled(level), level a LogLevel
IsEnabledLogLevel(this, level) ==
    /\ lastCall' = [op |-> "isEnabled", this |-> this, level |-> level,
                    ret |-> isEnabledLogLevel(Registry, this, level)]
    /\ UNCHANGED <<buildVars, holders, pending, lockVars, stmt, multiVars, regVars, sentries, hooks, firstChild>>

\* l->isEnabled(level), level a TraceLevel
IsEnabledTraceLevel(this, level) ==
    /\ lastCall' = [op |-> "isEnabled", this |-> this, level |-> level,
                    ret |-> isEnabledTraceLevel(Registry, this, level)]
    /\ UNCHANGED <<buildVars, holders, pending, lockVars, stmt, multiVars, regVars, sentries, hooks, firstChild>>

\* the thread whose statement sentry i belongs to
ThreadOf(i) == CHOOSE th \in Threads : i \in stmt[th]

\* l << ll : a log statement of thread th starts.  startMessage takes the
\* target's lock first, waiting for it if it has to
StartLog(th, this, ll) ==
    /\ Len(sentries) < MaxSentries
    /\ stmt[th] = {}
    /\ LET r == shlLogLevel(Registry, hooks, Len(sentries) + 1, this, ll)
           called == r.hooks # hooks
       IN  /\ called => ~lockBlocks(lock, mTarget[this], th)
           /\ sentries' = Append(sentries, r.sentry)
           /\ hooks' = r.hooks
           /\ lock' = IF called THEN lockAcquire(lock, mTarget[this], th) ELSE lock
    /\ stmt' = [stmt EXCEPT ![th] = @ \cup {Len(sentries) + 1}]
    /\ lastCall' = NoCall
    /\ UNCHANGED <<buildVars, holders, pending, LockType, multiVars, regVars, firstChild>>

\* l << tl : a trace statement starts
StartTrace(th, this, tl) ==
    /\ Len(sentries) < MaxSentries
    /\ stmt[th] = {}
    /\ LET r == shlTraceLevel(Registry, hooks, Len(sentries) + 1, this, tl)
           called == r.hooks # hooks
       IN  /\ called => ~lockBlocks(lock, mTarget[this], th)
           /\ sentries' = Append(sentries, r.sentry)
           /\ hooks' = r.hooks
           /\ lock' = IF called THEN lockAcquire(lock, mTarget[this], th) ELSE lock
    /\ stmt' = [stmt EXCEPT ![th] = @ \cup {Len(sentries) + 1}]
    /\ lastCall' = NoCall
    /\ UNCHANGED <<buildVars, holders, pending, LockType, multiVars, regVars, firstChild>>

\* sentry << v : the target's put may throw, which ends the statement: the
\* sentry is then only destroyed (stack unwinding)
Put(i, v, throws) ==
    /\ sentries[i].state = "open"
    /\ sentries[i].nput < MaxPuts
    /\ hooks' \in callThrough(alive(Registry, holders, sentries[i].mTarget), hooks,
                            sentryPut(hooks, sentries[i], v))
    /\ throws => hooks' # hooks
    /\ sentries' = [sentries EXCEPT ![i].nput = @ + 1,
                                    ![i].state = IF throws THEN "unwinding" ELSE "open"]
    /\ lastCall' = NoCall
    /\ UNCHANGED <<buildVars, holders, pending, lockVars, stmt, multiVars, regVars, firstChild>>

\* a destroyed sentry has no members any more; what is kept is history: the
\* message it belonged to, how it was created, how many values it was given,
\* whether its statement threw
Destroyed(s) ==
    [s EXCEPT !.state = "destroyed", !.mTarget = "none", !.mSource = nullptr,
              !.threw = (s.state = "unwinding")]

\* the end of the statement (or unwinding): the sentry is destroyed
Destroy(i) ==
    /\ sentries[i].state \in {"open", "unwinding"}
    /\ hooks' \in callThrough(alive(Registry, holders, sentries[i].mTarget), hooks,
                            sentryDtor(hooks, sentries[i]))
    /\ lock' \in IF hooks' # hooks
                 THEN lockRelease(lock, sentries[i].mTarget, ThreadOf(i))
                 ELSE {lock}
    /\ sentries' = [sentries EXCEPT ![i] = Destroyed(@)]
    /\ stmt' = [th \in Threads |-> stmt[th] \ {i}]
    /\ lastCall' = NoCall
    /\ UNCHANGED <<buildVars, holders, pending, LockType, multiVars, regVars, firstChild>>

\* a sentry is copied
Copy(i) ==
    /\ sentries[i].state = "open"
    /\ Len(sentries) < MaxSentries
    /\ sentries' = Append(sentries, LogSentryCopy(sentries[i], Len(sentries) + 1))
    /\ stmt' = [stmt EXCEPT ![ThreadOf(i)] = @ \cup {Len(sentries) + 1}]
    /\ lastCall' = NoCall
    /\ UNCHANGED <<buildVars, holders, pending, lockVars, multiVars, regVars, hooks, firstChild>>

\* the calls on the registry alone
NextRegistry ==
    \/ \E this \in Loggers, name \in ChildNames \cup {EmptyName} : Child(this, name)
    \/ \E this \in Loggers, level \in LevelArgs : SetLevel(this, level)
    \/ \E this \in Loggers, t \in TargetArgs : SetTarget(this, t)

\* thresholds and the isEnabled queries
NextLevels ==
    \/ \E this \in Loggers, name \in ChildNames : Child(this, name)
    \/ \E this \in Loggers, level \in LevelArgs : SetLevel(this, level)
    \/ \E this \in Loggers, level \in LogLevel : IsEnabledLogLevel(this, level)
    \/ \E this \in Loggers, level \in TraceLevel : IsEnabledTraceLevel(this, level)

\* the log statements of one thread, one after the other, on a logger that
\* is reconfigured while they run
Next ==
    \/ \E this \in Loggers, level \in ExampleLevels : SetLevel(this, level)
    \/ \E this \in Loggers, t \in TargetArgs : SetTarget(this, t)
    \/ \E this \in Loggers, ll \in ExampleMessages \cap LogLevel : StartLog(MainThread, this, ll)
    \/ \E this \in Loggers, tl \in ExampleMessages \cap TraceLevel : StartTrace(MainThread, this, tl)
    \/ \E i \in DOMAIN sentries, v \in Values \cup {Manip}, throws \in BOOLEAN :
          Put(i, v, throws)
    \/ \E i \in DOMAIN sentries : Destroy(i)
    \/ \E i \in DOMAIN sentries : Copy(i)

Spec == Init /\ [][Next]_vars

SpecRegistry == InitRegistry /\ [][NextRegistry]_vars

SpecLevels == InitLevels /\ [][NextLevels]_vars

(***************************************************************************)
(* canonicalName(l, separator) of logging_utils.hxx                        *)
(***************************************************************************)
DefaultSeparator == <<":", ":">>
Separators == {DefaultSeparator, <<".">>}

\* mutant: the parent's name is not looked at
RECURSIVE canonicalName_noNameCheck(_, _, _)
canonicalName_noNameCheck(reg, l, separator) ==
    IF reg.mParent[l] # nullptr
    THEN canonicalName_noNameCheck(reg, reg.mParent[l], separator)
            \o separator \o reg.mName[l]
    ELSE reg.mName[l]

RECURSIVE canonicalName(_, _, _)
canonicalName(reg, l, separator) ==
    IF reg.mParent[l] # nullptr /\ Len(reg.mName[reg.mParent[l]]) > 0
    THEN canonicalName(reg, reg.mParent[l], separator)
            \o separator \o reg.mName[l]
    ELSE reg.mName[l]

\* canonicalName(*l, separator)
CanonicalName(this, separator) ==
    /\ lastCall' = [op |-> "canonicalName", this |-> this,
                    separator |-> separator,
                    ret |-> canonicalName(Registry, this, separator)]
    /\ UNCHANGED <<buildVars, holders, pending, lockVars, stmt, multiVars, regVars, sentries, hooks, firstChild>>

\* building a tree and asking for names
NextNames ==
    \/ \E this \in Loggers, name \in ChildNames : Child(this, name)
    \/ \E this \in Loggers, separator \in Separators : CanonicalName(this, separator)

SpecNames == InitRegistry /\ [][NextNames]_vars

(***************************************************************************)
(* A MultiTarget in use: the hook calls a sentry makes on it, one message  *)
(* after the other, and setActive at any time.                             *)
(***************************************************************************)
IndexArgs == 0 .. MaxMembers

\* the number of the message now open on the MultiTarget, 0 if none
RoutedCount(hook) ==
    Cardinality({j \in DOMAIN routed : routed[j].hook = hook})

RoutedOpen ==
    IF RoutedCount("startMessage") > RoutedCount("endMessage")
    THEN RoutedCount("startMessage") ELSE 0

Routed(hook, msg) ==
    Append(routed, [hook |-> hook, index |-> mActiveTarget, msg |-> msg])

\* a MultiTarget of 1 .. MaxMembers members, in a debug build
InitMulti ==
    /\ InitWith({"TRACING"}, {LoggerRoot("cout", RootName)}, 1 .. MaxMembers)
    /\ ~NDEBUG

\* the sentry's constructor: mTarget.startMessage(source, level)
MultiStartMessage(level) ==
    /\ RoutedOpen = 0
    /\ Len(routed) < MaxRouted
    /\ LET msg == RoutedCount("startMessage") + 1
       IN  /\ mSubtargets' = multiStartMessage(mActiveTarget, mSubtargets, Root,
                                               level, <<msg, msg>>)
           /\ routed' = Routed("startMessage", msg)
    /\ lastCall' = NoCall
    /\ UNCHANGED <<buildVars, holders, pending, lockVars, stmt, regVars, sentries, hooks, firstChild, mActiveTarget>>

\* the sentry's operator<<: mTarget.put(source, v)
MultiPut(v) ==
    /\ RoutedOpen # 0
    /\ Len(routed) < MaxRouted
    /\ mSubtargets' = multiPut(mActiveTarget, mSubtargets, Root, v,
                               <<RoutedOpen, RoutedOpen>>)
    /\ routed' = Routed("put", RoutedOpen)
    /\ lastCall' = NoCall
    /\ UNCHANGED <<buildVars, holders, pending, lockVars, stmt, regVars, sentries, hooks, firstChild, mActiveTarget>>

\* a direct call of mTarget.put(manip)
MultiPutManip(manip) ==
    /\ RoutedOpen # 0
    /\ Len(routed) < MaxRouted
    /\ mSubtargets' = multiPutManip(mActiveTarget, mSubtargets, manip,
                                    <<RoutedOpen, RoutedOpen>>)
    /\ routed' = Routed("putManip", RoutedOpen)
    /\ lastCall' = NoCall
    /\ UNCHANGED <<buildVars, holders, pending, lockVars, stmt, regVars, sentries, hooks, firstChild, mActiveTarget>>

\* the sentry's destructor: mTarget.endMessage(source)
MultiEndMessage ==
    /\ RoutedOpen # 0
    /\ Len(routed) < MaxRouted
    /\ mSubtargets' = multiEndMessage(mActiveTarget, mSubtargets, Root,
                                      <<RoutedOpen, RoutedOpen>>)
    /\ routed' = Routed("endMessage", RoutedOpen)
    /\ lastCall' = NoCall
    /\ UNCHANGED <<buildVars, holders, pending, lockVars, stmt, regVars, sentries, hooks, firstChild, mActiveTarget>>

\* multi->setActive(index)
SetActive(index) ==
    LET r == setActive(mActiveTarget, mSubtargets, index)
    IN  /\ mActiveTarget' = r.mActiveTarget
        /\ lastCall' = [op |-> "setActive", index |-> index, exc |-> r.exc]
        /\ UNCHANGED <<buildVars, holders, pending, lockVars, stmt, regVars, sentries, hooks, firstChild,
                       mSubtargets, routed>>

NextMulti ==
    \/ \E level \in ExampleMessages \cap LogLevel : MultiStartMessage(level)
    \/ \E v \in Values : MultiPut(v)
    \/ MultiPutManip(Manip)
    \/ MultiEndMessage
    \/ \E index \in IndexArgs : SetActive(index)

SpecMulti == InitMulti /\ [][NextMulti]_vars

(***************************************************************************)
(* Log statements on a tree of loggers whose targets are replaced while    *)
(* the statements run.                                                     *)
(***************************************************************************)
InitTargets == Init /\ ~NDEBUG

NextTargets ==
    \/ \E this \in Loggers, name \in ChildNames : Child(this, name)
    \/ \E this \in Loggers, t \in TargetArgs : SetTarget(this, t)
    \/ \E this \in Loggers, ll \in ExampleMessages \cap LogLevel : StartLog(MainThread, this, ll)
    \/ \E i \in DOMAIN sentries, v \in Values : Put(i, v, FALSE)
    \/ \E i \in DOMAIN sentries : Destroy(i)

SpecTargets == InitTargets /\ [][NextTargets]_vars

(***************************************************************************)
(* Several threads logging through the same logger, each one statement     *)
(* after the other, on targets with or without a blocking lock.            *)
(***************************************************************************)
InitThreads ==
    /\ InitProgram({"TRACING"}, {LoggerRoot("cout", RootName)}, {1})
    /\ ~NDEBUG
    /\ InitLocks({"NullLock", "mutex"}, 1 .. MaxThreads)

NextThreads ==
    \/ \E this \in Loggers, level \in ExampleLevels \cap LogLevel : SetLevel(this, level)
    \/ \E this \in Loggers, t \in TargetArgs : SetTarget(this, t)
    \/ \E th \in Threads, this \in Loggers, ll \in ExampleMessages \cap LogLevel :
          StartLog(th, this, ll)
    \/ \E i \in DOMAIN sentries, v \in Values, throws \in BOOLEAN : Put(i, v, throws)
    \/ \E i \in DOMAIN sentries : Destroy(i)

SpecThreads == InitThreads /\ [][NextThreads]_vars

(***************************************************************************)
(* What the targets have observed.                                         *)
(***************************************************************************)
\* the positions of all hook calls received by all targets
Calls == UNION { {<<t, i>> : i \in DOMAIN hooks[t]} : t \in Targets }

CallAt(c) == hooks[c[1]][c[2]]

\* the calls of `hook` made for message m (by the sentry that started it or
\* by a copy), and those made by the sentry object k itself
CallsOfMessage(hook, m) ==
    {c \in Calls : CallAt(c).hook = hook /\ CallAt(c).by[1] = m}

CallsOfObject(hook, k) ==
    {c \in Calls : CallAt(c).hook = hook /\ CallAt(c).by[2] = k}

AllCallsOfObject(k) == {c \in Calls : CallAt(c).by[2] = k}

CountOn(t, hook) ==
    Cardinality({i \in DOMAIN hooks[t] : hooks[t][i].hook = hook})

\* sentry k started its message itself (it is not a copy)
Original(k) == sentries[k].msg = k

\* a copy of sentry k has been made
Copied(k) == \E j \in DOMAIN sentries : j # k /\ sentries[j].msg = sentries[k].msg

AllDestroyed == \A k \in DOMAIN sentries : sentries[k].state = "destroyed"

(***************************************************************************)
(* C1: an active sentry that is created enabled and never copied calls     *)
(* startMessage exactly once, at construction, and endMessage exactly      *)
(* once, at destruction, both on the target it was created on; and when    *)
(* all sentries of a run of uncopied log statements are destroyed, every   *)
(* target has received as many endMessage as startMessage calls.           *)
(***************************************************************************)
C1_StartEndOnce ==
    /\ \A k \in DOMAIN sentries :
          LET s == sentries[k]
          IN  (s.outputEnabled /\ s.mEnabled /\ Original(k) /\ ~Copied(k)) =>
                 /\ Cardinality(CallsOfMessage("startMessage", k)) = 1
                 /\ Cardinality(CallsOfMessage("endMessage", k)) =
                       IF s.state = "destroyed" THEN 1 ELSE 0
                 /\ \A c \in CallsOfMessage("startMessage", k),
                       d \in CallsOfMessage("endMessage", k) :
                          c[1] = d[1] /\ c[2] < d[2]
    /\ (AllDestroyed /\ \A k \in DOMAIN sentries : ~Copied(k)) =>
          \A t \in Targets : CountOn(t, "endMessage") = CountOn(t, "startMessage")

\* two enabled log statements have run to their end, neither sentry copied
C1_Witness ==
    /\ Len(sentries) = 2
    /\ AllDestroyed
    /\ \A k \in DOMAIN sentries :
          /\ sentries[k].outputEnabled /\ sentries[k].mEnabled
          /\ Original(k)
          /\ sentries[k].nput > 0

(***************************************************************************)
(* C2: when the put called by an enabled active sentry throws, that        *)
(* sentry still calls endMessage exactly once: none before its             *)
(* destruction, which is then the only thing that can happen to it, and    *)
(* one after.                                                              *)
(***************************************************************************)
C2_EndAfterThrow ==
    \A k \in DOMAIN sentries :
       LET s == sentries[k]
       IN  (s.outputEnabled /\ s.mEnabled /\ (s.state = "unwinding" \/ s.threw)) =>
              Cardinality(CallsOfObject("endMessage", k)) =
                 IF s.state = "destroyed" THEN 1 ELSE 0

\* an enabled sentry whose put threw has been destroyed
C2_Witness ==
    \E k \in DOMAIN sentries :
       /\ sentries[k].outputEnabled /\ sentries[k].mEnabled
       /\ sentries[k].state = "destroyed"
       /\ sentries[k].threw

(***************************************************************************)
(* C3: an active sentry created with enabled = false never calls a hook    *)
(* of any target: not at construction, not when values are appended, not   *)
(* at destruction.                                                         *)
(***************************************************************************)
C3_DisabledSilent ==
    \A k \in DOMAIN sentries :
       (sentries[k].outputEnabled /\ ~sentries[k].mEnabled) =>
          AllCallsOfObject(k) = {}

\* a disabled active sentry was given MaxPuts values and destroyed
C3_Witness ==
    \E k \in DOMAIN sentries :
       /\ sentries[k].outputEnabled /\ ~sentries[k].mEnabled
       /\ sentries[k].nput = MaxPuts
       /\ sentries[k].state = "destroyed"

(***************************************************************************)
(* C4: in a logger type whose trace flag is false, a message of a trace    *)
(* level never causes a hook call, whatever the logger's threshold and     *)
(* whatever is appended.                                                   *)
(***************************************************************************)
C4_TraceElided ==
    ~trace =>
       /\ \A k \in DOMAIN sentries :
             sentries[k].level \in TraceLevel => AllCallsOfObject(k) = {}
       /\ \A c \in Calls : CallAt(c).level \notin TraceLevel

\* trace flag false, a trace message started with the threshold at or below
\* its level, given MaxPuts values and destroyed
C4_Witness ==
    /\ ~trace
    /\ \E k \in DOMAIN sentries :
          /\ sentries[k].level \in TraceLevel
          /\ sentries[k].asked
          /\ sentries[k].nput = MaxPuts
          /\ sentries[k].state = "destroyed"

(***************************************************************************)
(* C7: a logger declared Logger<Target, TRACING> traces in a debug build   *)
(* (NDEBUG not defined) and does not in a release build (NDEBUG defined):  *)
(* a DEBUG message started with the threshold at DEBUG or below reaches    *)
(* the target exactly when NDEBUG is not defined.                          *)
(***************************************************************************)
C7_TracingOffInRelease ==
    traceArg = "TRACING" =>
       \A k \in DOMAIN sentries :
          (Original(k) /\ sentries[k].level = LEVEL_DEBUG /\ sentries[k].asked) =>
             ((CallsOfMessage("startMessage", k) # {}) <=> ~NDEBUG)

(***************************************************************************)
(* C5: isEnabled(s) for a log level s returns true exactly when s is at    *)
(* least the logger's threshold, in every build (trace flag true or        *)
(* false).                                                                 *)
(***************************************************************************)
C5_IsEnabledLog ==
    (lastCall.op = "isEnabled" /\ lastCall.level \in LogLevel) =>
       (lastCall.ret <=> (lastCall.level >= mLevel[lastCall.this]))

\* with the trace flag false, isEnabled of a log level returned true on a
\* child logger
C5_Witness ==
    /\ lastCall.op = "isEnabled"
    /\ lastCall.level \in LogLevel
    /\ lastCall.this # Root
    /\ ~trace
    /\ lastCall.ret

(***************************************************************************)
(* C6: isEnabled(t) for a trace level t returns true exactly when t is at  *)
(* least the logger's threshold and the trace flag of the logger type is   *)
(* true.                                                                   *)
(***************************************************************************)
C6_IsEnabledTrace ==
    (lastCall.op = "isEnabled" /\ lastCall.level \in TraceLevel) =>
       (lastCall.ret <=> ((lastCall.level >= mLevel[lastCall.this]) /\ trace))

\* with the trace flag false, isEnabled of a trace level at the threshold
\* returned false
C6_Witness ==
    /\ lastCall.op = "isEnabled"
    /\ lastCall.level \in TraceLevel
    /\ lastCall.level >= mLevel[lastCall.this]
    /\ ~trace
    /\ ~lastCall.ret

(***************************************************************************)
(* C8: child(name) with a non-empty name returns the logger that the       *)
(* first child(name) on this parent returned, whatever was done to the     *)
(* registry in between, and the parent holds exactly one entry for the     *)
(* name, which is that logger.                                             *)
(***************************************************************************)
C8_ChildIdempotent ==
    /\ (lastCall.op = "child" /\ Len(lastCall.name) > 0) =>
          /\ lastCall.exc = "none"
          /\ lastCall.ret = firstChild[<<lastCall.this, lastCall.name>>]
    /\ \A k \in DOMAIN firstChild :
          {e \in mChildren[k[1]] : e[1] = k[2]} = {<<k[2], firstChild[k]>>}

\* a repeated child(name) on a parent that has got a second child since
C8_Witness ==
    /\ lastCall.op = "child"
    /\ lastCall.exc = "none"
    /\ ~lastCall.created
    /\ Cardinality(mChildren[lastCall.this]) = 2
    /\ lastCall.ret = 2

(***************************************************************************)
(* C9: child("") throws invalid_argument and changes nothing in the        *)
(* registry: no logger is added, no name, threshold, target, parent link   *)
(* or children map changes.                                                *)
(***************************************************************************)
C9_EmptyNameRejected ==
    [][(lastCall'.op = "child" /\ Len(lastCall'.name) = 0) =>
          (lastCall'.exc = "invalid_argument" /\ UNCHANGED regVars)]_vars

\* child("") was called on a logger that has a child, and threw
C9_Witness ==
    /\ lastCall.op = "child"
    /\ Len(lastCall.name) = 0
    /\ lastCall.exc = "invalid_argument"
    /\ mChildren[lastCall.this] # {}

(***************************************************************************)
(* C10: the logger that child(name) creates has the threshold and the      *)
(* target its parent has at the call, the logger child was called on as    *)
(* its parent, the given name and no children; it is the logger returned.  *)
(***************************************************************************)
C10_ChildInherits ==
    [][(lastCall'.op = "child" /\ lastCall'.created) =>
          LET n == lastCall'.ret
              p == lastCall'.this
          IN  /\ n \notin Loggers
              /\ n \in DOMAIN mName'
              /\ mLevel'[n] = mLevel[p]
              /\ mTarget'[n] = mTarget[p]
              /\ mParent'[n] = p
              /\ mName'[n] = lastCall'.name
              /\ mChildren'[n] = {}]_vars

\* a logger was just created under a parent that is no root and whose
\* threshold and target are not those it was made with
C10_Witness ==
    /\ lastCall.op = "child"
    /\ lastCall.created
    /\ lastCall.this # Root
    /\ mLevel[lastCall.ret] = LEVEL_ERROR
    /\ mTarget[lastCall.ret] = "cerr"

(***************************************************************************)
(* The tree as the parent links give it.                                   *)
(***************************************************************************)
RECURSIVE IsAncestor(_, _)
\* a is n or an ancestor of n, following mParent
IsAncestor(a, n) ==
    IF n = a THEN TRUE
    ELSE IF mParent[n] = nullptr THEN FALSE
    ELSE IsAncestor(a, mParent[n])

\* P and every descendant of P
Subtree(P) == {n \in Loggers : IsAncestor(P, n)}

Depth2 == {n \in Loggers : mParent[n] # nullptr /\ mParent[mParent[n]] # nullptr}

(***************************************************************************)
(* C11: right after setLevel(v) on logger P, level() of P and of every     *)
(* descendant of P, at every depth, is v, whatever levels the descendants  *)
(* had been given before.                                                  *)
(***************************************************************************)
C11_SetLevelCascades ==
    lastCall.op = "setLevel" =>
       \A n \in Subtree(lastCall.this) : mLevel[n] = lastCall.level

\* setLevel on the root just overwrote the level of a grandchild, which
\* differed from that of its own parent (which was not changed)
C11_Witness ==
    /\ lastCall.op = "setLevel"
    /\ lastCall.this = Root
    /\ \E n \in Depth2 : n \in lastCall.changed /\ mParent[n] \notin lastCall.changed

(***************************************************************************)
(* C12: right after setTarget(t) on logger P, target() of P and of every   *)
(* descendant of P, at every depth, is t, whatever targets the descendants *)
(* had been given before.                                                  *)
(***************************************************************************)
C12_SetTargetCascades ==
    lastCall.op = "setTarget" =>
       \A n \in Subtree(lastCall.this) : mTarget[n] = lastCall.target

\* setTarget on the root just overwrote the target of a grandchild, which
\* differed from that of its own parent (which was not changed)
C12_Witness ==
    /\ lastCall.op = "setTarget"
    /\ lastCall.this = Root
    /\ \E n \in Depth2 : n \in lastCall.changed /\ mParent[n] \notin lastCall.changed

(***************************************************************************)
(* C13: canonicalName(node) is canonicalName(parent) + separator + name    *)
(* when the node has a parent with a non-empty name, and the node's own    *)
(* name otherwise: the names on the path from the root to the node,        *)
(* joined by the separator, without the root's name when that is empty.    *)
(* For root("") -> a("svc") -> b("worker"), b is "svc::worker" and the     *)
(* root is "".                                                             *)
(***************************************************************************)
RECURSIVE PathNames(_)
\* the names from the root down to n, an empty root name left out
PathNames(n) ==
    IF mParent[n] = nullptr
    THEN IF mName[n] = EmptyName THEN << >> ELSE <<mName[n]>>
    ELSE Append(PathNames(mParent[n]), mName[n])

RECURSIVE Join(_, _)
Join(names, separator) ==
    IF Len(names) = 0 THEN << >>
    ELSE IF Len(names) = 1 THEN names[1]
    ELSE names[1] \o separator \o Join(Tail(names), separator)

SvcWorker ==
    <<"s", "v", "c", ":", ":", "w", "o", "r", "k", "e", "r">>

C13_CanonicalName ==
    lastCall.op = "canonicalName" =>
       LET n   == lastCall.this
           sep == lastCall.separator
           p   == mParent[n]
       IN  /\ lastCall.ret = Join(PathNames(n), sep)
           /\ (p # nullptr /\ mName[p] # EmptyName) =>
                 lastCall.ret = Join(PathNames(p), sep) \o sep \o mName[n]
           /\ ~(p # nullptr /\ mName[p] # EmptyName) => lastCall.ret = mName[n]
           /\ (n = Root /\ mName[Root] = EmptyName) => lastCall.ret = EmptyName
           /\ (/\ sep = DefaultSeparator
               /\ p # nullptr
               /\ mName[n] = <<"w", "o", "r", "k", "e", "r">>
               /\ mName[p] = <<"s", "v", "c">>
               /\ mParent[p] = Root
               /\ mName[Root] = EmptyName) => lastCall.ret = SvcWorker

\* canonicalName was asked of b in root("") -> a("svc") -> b("worker")
C13_Witness ==
    /\ lastCall.op = "canonicalName"
    /\ lastCall.separator = DefaultSeparator
    /\ mName[Root] = EmptyName
    /\ lastCall.this \in Depth2
    /\ lastCall.ret = SvcWorker

(***************************************************************************)
(* What the members of the MultiTarget have observed.                      *)
(***************************************************************************)
Members == DOMAIN mSubtargets

\* the calls made on the MultiTarget while mActiveTarget was i, as the
\* member would see them
RECURSIVE RoutedTo(_, _)
RoutedTo(i, n) ==
    IF n = 0 THEN << >>
    ELSE IF routed[n].index = i
         THEN Append(RoutedTo(i, n - 1), [hook |-> routed[n].hook, msg |-> routed[n].msg])
         ELSE RoutedTo(i, n - 1)

SeenBy(i) ==
    [j \in DOMAIN mSubtargets[i] |->
        [hook |-> mSubtargets[i][j].hook, msg |-> mSubtargets[i][j].by[1]]]

MemberHas(i, hook, msg) ==
    \E j \in DOMAIN mSubtargets[i] :
       mSubtargets[i][j].hook = hook /\ mSubtargets[i][j].by[1] = msg

(***************************************************************************)
(* C14: every hook call on the MultiTarget is forwarded to exactly one     *)
(* member, the one at index mActiveTarget at the time of the call: what    *)
(* member i has received is exactly the calls made while mActiveTarget     *)
(* was i, in order.                                                        *)
(***************************************************************************)
C14_RouterDispatch ==
    \A i \in Members : SeenBy(i) = RoutedTo(i, Len(routed))

\* members [A, B]: a full message while index 0 was active, setActive(1),
\* a full message after it
C14_Witness ==
    /\ Cardinality(Members) = 2
    /\ mActiveTarget = 1
    /\ Len(routed) = 6
    /\ \A j \in 1 .. 3 : routed[j].index = 0 /\ routed[j].msg = 1
    /\ \A j \in 4 .. 6 : routed[j].index = 1 /\ routed[j].msg = 2
    /\ Len(mSubtargets[0]) = 3
    /\ Len(mSubtargets[1]) = 3

(***************************************************************************)
(* C15: on a MultiTarget of N members, setActive(index) with index > N-1   *)
(* throws and leaves mActiveTarget as it was; with index <= N-1 it         *)
(* returns and mActiveTarget is index.                                     *)
(***************************************************************************)
C15_SetActive ==
    [][lastCall'.op = "setActive" =>
          IF lastCall'.index > Cardinality(Members) - 1
          THEN lastCall'.exc = "runtime_error" /\ mActiveTarget' = mActiveTarget
          ELSE lastCall'.exc = "none" /\ mActiveTarget' = lastCall'.index]_vars

\* setActive(N) has just failed on a MultiTarget whose last member, N-1,
\* had been made the active one
C15_Witness ==
    /\ lastCall.op = "setActive"
    /\ lastCall.exc = "runtime_error"
    /\ lastCall.index = Cardinality(Members)
    /\ mActiveTarget = Cardinality(Members) - 1
    /\ mActiveTarget > 0

(***************************************************************************)
(* C16: mActiveTarget is 0 after construction and 0 <= mActiveTarget < N   *)
(* in every reachable state, whatever setActive calls, failed or not,      *)
(* have been made.                                                         *)
(***************************************************************************)
C16_ActiveInRange ==
    /\ mActiveTarget = 0
    /\ [](mActiveTarget \in 0 .. Cardinality(Members) - 1)

\* a message is open on a MultiTarget of MaxMembers members, the last
\* member is active and a setActive call has just failed
C16_Witness ==
    /\ Cardinality(Members) = MaxMembers
    /\ mActiveTarget = MaxMembers - 1
    /\ RoutedOpen # 0
    /\ lastCall.op = "setActive"
    /\ lastCall.exc # "none"

(***************************************************************************)
(* C17: the member is chosen at each hook call: when mActiveTarget is i    *)
(* at a message's startMessage and j # i at its endMessage, member i has   *)
(* received the start and not the end of that message, and member j the    *)
(* end and not the start.                                                  *)
(***************************************************************************)
RoutedAt(hook, msg) ==
    {routed[j].index : j \in {k \in DOMAIN routed :
                                 routed[k].hook = hook /\ routed[k].msg = msg}}

C17_DispatchPerCall ==
    \A m \in 1 .. RoutedCount("endMessage") :
       \A i \in RoutedAt("startMessage", m), j \in RoutedAt("endMessage", m) :
          i # j =>
             /\ MemberHas(i, "startMessage", m) /\ ~MemberHas(i, "endMessage", m)
             /\ MemberHas(j, "endMessage", m) /\ ~MemberHas(j, "startMessage", m)

\* a message was started while member 0 was active and ended while member
\* 1 was, with a put in between
C17_Witness ==
    /\ RoutedAt("startMessage", 1) = {0}
    /\ RoutedAt("endMessage", 1) = {1}
    /\ RoutedAt("put", 1) # {}

(***************************************************************************)
(* C18: setTarget on a logger while a sentry made by that logger or by a   *)
(* descendant is open does not redirect the sentry: every hook call of a   *)
(* message is made on the target that received its startMessage, which is  *)
(* the target the open sentry holds, whatever the target of its logger     *)
(* has become; and a sentry created later starts its message on the        *)
(* target its logger has then.                                             *)
(***************************************************************************)
\* the targets that received the startMessage of message m
StartedOn(m) == {c[1] : c \in CallsOfMessage("startMessage", m)}

C18_BoundAtConstruction ==
    \A k \in DOMAIN sentries :
       (sentries[k].outputEnabled /\ sentries[k].mEnabled) =>
          /\ \A c \in AllCallsOfObject(k) : StartedOn(sentries[k].msg) = {c[1]}
          /\ sentries[k].state = "open" =>
                StartedOn(sentries[k].msg) = {sentries[k].mTarget}

C18_CreatedAfter ==
    [][Len(sentries') = Len(sentries) + 1 =>
          LET k == Len(sentries')
              s == sentries'[k]
          IN  (s.msg = k /\ s.outputEnabled /\ s.mEnabled) =>
                 /\ s.mTarget = mTarget[s.mSource]
                 /\ Len(hooks'[mTarget[s.mSource]]) = Len(hooks[mTarget[s.mSource]]) + 1
                 /\ \A t \in Targets \ {mTarget[s.mSource]} : hooks'[t] = hooks[t]]_vars

C18_NoRedirect == []C18_BoundAtConstruction /\ C18_CreatedAfter

\* setTarget(cerr) on the root has just replaced the target of the child
\* logger whose sentry is open on cout and has been given a value; an
\* earlier message of the run, started after a setTarget, is on cerr
C18_Witness ==
    /\ lastCall.op = "setTarget"
    /\ lastCall.this = Root
    /\ lastCall.target = "cerr"
    /\ \E k \in DOMAIN sentries :
          /\ sentries[k].state = "open"
          /\ sentries[k].mSource # Root
          /\ sentries[k].mSource \in lastCall.changed
          /\ sentries[k].mTarget = "cout"
          /\ sentries[k].nput > 0
          /\ mTarget[sentries[k].mSource] = "cerr"
    /\ \E j \in DOMAIN sentries :
          sentries[j].state = "destroyed" /\ StartedOn(j) = {"cerr"}

(***************************************************************************)
(* C19: the lock that startMessage takes for an enabled active sentry is   *)
(* released by endMessage however the statement ends (normally or by an    *)
(* exception thrown while a value is appended): whenever no such sentry    *)
(* is alive on a target, that target's lock is free.                       *)
(***************************************************************************)
\* the enabled active sentries not yet destroyed that are bound to target t
OpenOn(t) ==
    {k \in DOMAIN sentries :
        /\ sentries[k].state \in {"open", "unwinding"}
        /\ sentries[k].outputEnabled /\ sentries[k].mEnabled
        /\ sentries[k].mTarget = t}

C19_LockReleased ==
    LockType = "mutex" =>
       \A t \in Targets : OpenOn(t) = {} => lock[t] = NoThread

\* with a mutex: one statement has ended by an exception, one normally,
\* both after they took the lock
C19_Witness ==
    /\ LockType = "mutex"
    /\ AllDestroyed
    /\ \E j, k \in DOMAIN sentries :
          /\ sentries[j].threw /\ sentries[j].mEnabled
          /\ ~sentries[k].threw /\ sentries[k].mEnabled /\ sentries[k].nput > 0

(***************************************************************************)
(* C20: with a blocking lock on a target that several threads log to, at   *)
(* most one sentry at a time is between its startMessage and its           *)
(* endMessage on that target, and the hook calls of different messages     *)
(* are not interleaved on it.                                              *)
(***************************************************************************)
Contiguous(log) ==
    \A a, b, c \in DOMAIN log :
       (a < b /\ b < c /\ log[a].by[1] = log[c].by[1]) => log[b].by[1] = log[a].by[1]

C20_MutualExclusion ==
    LockType = "mutex" =>
       \A t \in Targets :
          /\ Cardinality(OpenOn(t)) <= 1
          /\ Contiguous(hooks[t])

\* with a mutex: the second thread is in the middle of a message on cout
\* and holds its lock; the first thread has no statement running and a
\* message it starts on the root logger would go to cout: it has to wait
C20_Witness ==
    /\ LockType = "mutex"
    /\ Len(sentries) < MaxSentries
    /\ stmt[MainThread] = {}
    /\ mTarget[Root] = "cout"
    /\ mLevel[Root] <= LEVEL_INFO
    /\ lock["cout"] = MaxThreads
    /\ \E k \in stmt[MaxThreads] : k \in OpenOn("cout") /\ sentries[k].nput > 0

(***************************************************************************)
(* C21: copying an enabled active sentry does not end the message twice:   *)
(* over the original and all its copies, endMessage is called at most      *)
(* once for the message, and exactly once when all of them are destroyed.  *)
(***************************************************************************)
\* the sentry objects of message m: the original and its copies
ObjectsOf(m) == {k \in DOMAIN sentries : sentries[k].msg = m}

C21_CopyEndsOnce ==
    \A m \in DOMAIN sentries :
       (Original(m) /\ sentries[m].outputEnabled /\ sentries[m].mEnabled) =>
          /\ Cardinality(CallsOfMessage("endMessage", m)) <= 1
          /\ (\A k \in ObjectsOf(m) : sentries[k].state = "destroyed") =>
                Cardinality(CallsOfMessage("endMessage", m)) = 1

(***************************************************************************)
(* C22: a stream manipulator given to an enabled active sentry reaches the *)
(* target through the manipulator hook put(manip), never through the value *)
(* hook put(source, v); ordinary values reach it through put(source, v).   *)
(***************************************************************************)
C22_ManipHook ==
    \A c \in Calls :
       /\ CallAt(c).value = Manip => CallAt(c).hook = "putManip"
       /\ CallAt(c).value \in Values => CallAt(c).hook = "put"

(***************************************************************************)
(* Log statements on a tree of loggers whose thresholds are set while the  *)
(* statements run.                                                         *)
(***************************************************************************)
NextThresholds ==
    \/ \E this \in Loggers, name \in ChildNames : Child(this, name)
    \/ \E this \in Loggers, level \in ExampleLevels : SetLevel(this, level)
    \/ \E this \in Loggers, ll \in ExampleMessages \cap LogLevel : StartLog(MainThread, this, ll)
    \/ \E i \in DOMAIN sentries : Destroy(i)

SpecThresholds == InitTargets /\ [][NextThresholds]_vars

(***************************************************************************)
(* C23: setLevel on logger C changes the level of C and of C's descendants *)
(* only: in the step of the call, every logger outside C's subtree         *)
(* (ancestors, siblings, other branches) keeps its level.  So a child can  *)
(* be given a level different from its parent's after it was created.      *)
(***************************************************************************)
C23_SetLevelFrame ==
    [][lastCall'.op = "setLevel" =>
          \A n \in Loggers \ Subtree(lastCall'.this) : mLevel'[n] = mLevel[n]]_vars

\* the parent is at DEBUG and the child at ERROR; a LEVEL_INFO message on
\* the child was dropped, and after it one on the parent was forwarded
C23_Witness ==
    \E C \in Loggers :
       /\ mParent[C] # nullptr
       /\ mLevel[mParent[C]] = LEVEL_DEBUG
       /\ mLevel[C] = LEVEL_ERROR
       /\ Len(sentries) = 2
       /\ sentries[1].level = LEVEL_INFO /\ sentries[2].level = LEVEL_INFO
       /\ AllCallsOfObject(1) = {}
       /\ CallsOfObject("startMessage", 2) # {}
       /\ sentries[1].asked = FALSE
       /\ sentries[2].state = "open" /\ sentries[2].mSource = mParent[C]


(***************************************************************************)
(* C24: setTarget on logger C changes the target of C and of C's           *)
(* descendants only: in the step of the call every logger outside C's      *)
(* subtree keeps its target, and a message started through a logger is     *)
(* started on the target that logger has at that moment, so the loggers    *)
(* outside the subtree go on logging to the old target.                    *)
(***************************************************************************)
C24_FrameStep ==
    lastCall'.op = "setTarget" =>
       \A n \in Loggers \ Subtree(lastCall'.this) : mTarget'[n] = mTarget[n]

C24_StartStep ==
    (Len(sentries') = Len(sentries) + 1 /\ sentries'[Len(sentries')].mEnabled) =>
       LET s == sentries'[Len(sentries')]
           t == mTarget[s.mSource]
       IN  /\ hooks'[t] = Append(hooks[t], [hook |-> "startMessage", level |-> s.level,
                                            value |-> "", by |-> <<s.id, s.id>>])
           /\ \A u \in Targets \ {t} : hooks'[u] = hooks[u]

C24_SetTargetFrame == [][C24_FrameStep]_vars /\ [][C24_StartStep]_vars

\* the child was given cerr while the root kept cout: a message through the
\* child reached cerr, and after it one through the root reached cout
C24_Witness ==
    \E C \in Loggers :
       /\ mParent[C] = Root
       /\ mTarget[Root] = "cout" /\ mTarget[C] = "cerr"
       /\ Len(sentries) = 2
       /\ StartedOn(1) = {"cerr"}
       /\ StartedOn(2) = {"cout"}
       /\ sentries[2].state = "open" /\ sentries[2].mSource = Root


(***************************************************************************)
(* Every public operation of a logger on a small tree: child, the setters, *)
(* the queries and log statements.                                         *)
(***************************************************************************)
\* l->name(), l->parent(), l->level(), l->target()
GetName(this) ==
    /\ lastCall' = [op |-> "name", this |-> this, ret |-> nameOf(Registry, this)]
    /\ UNCHANGED <<buildVars, holders, pending, lockVars, stmt, multiVars, regVars, sentries, hooks, firstChild>>

GetParent(this) ==
    /\ lastCall' = [op |-> "parent", this |-> this, ret |-> parentOf(Registry, this)]
    /\ UNCHANGED <<buildVars, holders, pending, lockVars, stmt, multiVars, regVars, sentries, hooks, firstChild>>

GetLevel(this) ==
    /\ lastCall' = [op |-> "level", this |-> this, ret |-> levelOf(Registry, this)]
    /\ UNCHANGED <<buildVars, holders, pending, lockVars, stmt, multiVars, regVars, sentries, hooks, firstChild>>

GetTarget(this) ==
    /\ lastCall' = [op |-> "target", this |-> this, ret |-> targetOf(Registry, this)]
    /\ UNCHANGED <<buildVars, holders, pending, lockVars, stmt, multiVars, regVars, sentries, hooks, firstChild>>

NextFrames ==
    \/ \E this \in Loggers, name \in ChildNames : Child(this, name)
    \/ \E this \in Loggers : SetLevel(this, LEVEL_ERROR)
    \/ \E this \in Loggers : SetTarget(this, "cerr")
    \/ \E this \in Loggers : IsEnabledLogLevel(this, LEVEL_INFO)
    \/ \E this \in Loggers : IsEnabledTraceLevel(this, LEVEL_DEBUG)
    \/ \E this \in Loggers : GetName(this)
    \/ \E this \in Loggers : GetParent(this)
    \/ \E this \in Loggers : GetLevel(this)
    \/ \E this \in Loggers : GetTarget(this)
    \/ \E this \in Loggers : StartLog(MainThread, this, LEVEL_INFO)
    \/ \E this \in Loggers : StartTrace(MainThread, this, LEVEL_DEBUG)
    \/ \E i \in DOMAIN sentries : Destroy(i)

SpecFrames == InitTargets /\ [][NextFrames]_vars

(***************************************************************************)
(* C25: a children map only grows, and only in child(): the logger made    *)
(* first for a name under a parent stays in the parent's map under that    *)
(* name, no step removes or replaces an entry or changes a name or a       *)
(* parent link, and every step that is not a call of child() (setLevel,    *)
(* setTarget, isEnabled, level, target, name, parent, the start and the    *)
(* end of a message) leaves all children maps, names and parent links as   *)
(* they are.                                                               *)
(***************************************************************************)
C25_ChildStays ==
    \A k \in DOMAIN firstChild : <<k[2], firstChild[k]>> \in mChildren[k[1]]

C25_MapStep ==
    /\ \A n \in Loggers :
          /\ n \in DOMAIN mName'
          /\ mChildren[n] \subseteq mChildren'[n]
          /\ mName'[n] = mName[n]
          /\ mParent'[n] = mParent[n]
    /\ lastCall'.op # "child" =>
          /\ mChildren' = mChildren
          /\ mName' = mName
          /\ mParent' = mParent

C25_ChildrenOnlyGrow == []C25_ChildStays /\ [][C25_MapStep]_vars

\* a tree of three loggers, made before a message was started, and a call
\* of setTarget just made on the root
C25_Witness ==
    /\ Cardinality(Loggers) = MaxNodes
    /\ Cardinality(DOMAIN firstChild) = MaxNodes - 1
    /\ Len(sentries) > 0
    /\ lastCall.op = "setTarget" /\ lastCall.this = Root
    /\ lastCall.changed = Loggers


(***************************************************************************)
(* C26: for each enabled active sentry the target receives startMessage    *)
(* first, then one put for each value given to the sentry, each at the     *)
(* moment the value is given and so in the order of the values, then       *)
(* endMessage last: no put of the sentry comes before the startMessage of  *)
(* its message or after its own endMessage.                                *)
(***************************************************************************)
C26_Order ==
    \A k \in DOMAIN sentries :
       (sentries[k].outputEnabled /\ sentries[k].mEnabled) =>
          /\ \A c \in CallsOfMessage("startMessage", sentries[k].msg),
                d \in AllCallsOfObject(k) :
                   c[1] = d[1] /\ c[2] <= d[2]
          /\ CallsOfMessage("startMessage", sentries[k].msg) # {}
          /\ \A e \in CallsOfObject("endMessage", k), d \in AllCallsOfObject(k) :
                d[2] <= e[2]
          /\ sentries[k].state = "destroyed" => CallsOfObject("endMessage", k) # {}
          /\ Original(k) =>
                Cardinality(CallsOfObject("put", k)) = sentries[k].nput

C26_PutStep ==
    \A i \in DOMAIN sentries, v \in Values \cup {Manip}, throws \in BOOLEAN :
       (Put(i, v, throws) /\ sentries[i].outputEnabled /\ sentries[i].mEnabled) =>
          LET t == sentries[i].mTarget
          IN  hooks'[t] = Append(hooks[t], [hook |-> "put", level |-> NoLevel,
                                            value |-> v,
                                            by |-> <<sentries[i].msg, i>>])

C26_HookOrder == []C26_Order /\ [][C26_PutStep]_vars

\* a target has received exactly startMessage, the two values given to the
\* sentry in their order, and endMessage
C26_Witness ==
    \E t \in Targets :
       /\ Len(hooks[t]) = 4
       /\ \A j \in 1 .. 4 : hooks[t][j].by = <<1, 1>>
       /\ hooks[t][1].hook = "startMessage"
       /\ hooks[t][2].hook = "put" /\ hooks[t][2].value = "v"
       /\ hooks[t][3].hook = "put" /\ hooks[t][3].value = Manip
       /\ hooks[t][4].hook = "endMessage"


(***************************************************************************)
(* C27: the registry is a tree in every reachable state: the root has a    *)
(* null parent; every other logger's parent link is the logger whose       *)
(* children map holds it, under the logger's own name; every logger but    *)
(* the root has a non-empty name; each is held by exactly one parent,      *)
(* once; and the parent links lead from every logger to the root without   *)
(* a cycle.                                                                *)
(***************************************************************************)
\* the entries <<parent, name>> under which logger n is held
HeldAt(n) ==
    UNION { {<<p, e[1]>> : e \in {x \in mChildren[p] : x[2] = n}} : p \in Loggers }

RECURSIVE ReachesRoot(_, _)
\* following the parent links from n reaches the root within `fuel` links
ReachesRoot(n, fuel) ==
    IF n = Root THEN TRUE
    ELSE IF fuel = 0 \/ mParent[n] = nullptr THEN FALSE
    ELSE ReachesRoot(mParent[n], fuel - 1)

C27_Tree ==
    /\ Root \in Loggers /\ mParent[Root] = nullptr
    /\ \A n \in Loggers \ {Root} :
          /\ mParent[n] \in Loggers
          /\ HeldAt(n) = {<<mParent[n], mName[n]>>}
          /\ mName[n] # EmptyName
          /\ ReachesRoot(n, Cardinality(Loggers))
    /\ HeldAt(Root) = {}
    /\ \A p \in Loggers : \A e, f \in mChildren[p] : e[1] = f[1] => e = f

\* child() has just made the last logger of a chain of three
C27_Witness ==
    /\ Cardinality(Loggers) = MaxNodes
    /\ Depth2 # {}
    /\ lastCall.op = "child" /\ lastCall.created


(***************************************************************************)
(* Log and trace statements of every level, in every build of both logger  *)
(* types, on a logger whose level is set in between.                       *)
(***************************************************************************)
NextStart ==
    \/ \E this \in Loggers, level \in LevelArgs : SetLevel(this, level)
    \/ \E this \in Loggers, ll \in LogLevel : StartLog(MainThread, this, ll)
    \/ \E this \in Loggers, tl \in TraceLevel : StartTrace(MainThread, this, tl)
    \/ \E i \in DOMAIN sentries, v \in Values : Put(i, v, FALSE)
    \/ \E i \in DOMAIN sentries : Destroy(i)

SpecStart == InitLevels /\ [][NextStart]_vars

(***************************************************************************)
(* C28: starting a message of level s on logger L makes hook calls on the  *)
(* target exactly when L.isEnabled(s), asked at that moment, returns true: *)
(* for log levels and for trace levels, with the trace flag on and off.    *)
(* A message whose start made no call makes none later, one whose start    *)
(* made a call has its startMessage.                                       *)
(***************************************************************************)
C28_StartStep ==
    /\ \A this \in Loggers, ll \in LogLevel :
          StartLog(MainThread, this, ll) =>
             ((hooks' # hooks) <=> isEnabledLogLevel(Registry, this, ll))
    /\ \A this \in Loggers, tl \in TraceLevel :
          StartTrace(MainThread, this, tl) =>
             ((hooks' # hooks) <=> isEnabledTraceLevel(Registry, this, tl))

C28_CallsIffStarted ==
    \A k \in DOMAIN sentries :
       /\ AllCallsOfObject(k) # {} <=> CallsOfMessage("startMessage", k) # {}
       /\ sentries[k].nput > 0 =>
             (CallsOfObject("put", k) # {} <=> CallsOfMessage("startMessage", k) # {})

C28_StartIffEnabled == []C28_CallsIffStarted /\ [][C28_StartStep]_vars

\* with the trace flag on: a trace message that was forwarded, then a log
\* message dropped by a logger whose level had been raised
C28_Witness ==
    /\ trace
    /\ Len(sentries) = 2
    /\ sentries[1].level \in TraceLevel /\ CallsOfObject("put", 1) # {}
    /\ sentries[2].level \in LogLevel /\ sentries[2].nput > 0 /\ AllCallsOfObject(2) = {}

(***************************************************************************)
(* C29: whether a sentry forwards is decided when it is constructed and    *)
(* never again: no step, setLevel on its logger included, changes          *)
(* mEnabled of an existing sentry; a value given to a sentry is put on the *)
(* target, and its destruction calls endMessage, exactly when its message  *)
(* got startMessage, whatever the logger's level is by then.  So a message *)
(* that got startMessage has its endMessage once its sentries are          *)
(* destroyed, and one that did not never gets a put or an endMessage.      *)
(***************************************************************************)
GotStart(m) == CallsOfMessage("startMessage", m) # {}

C29_Step ==
    /\ \A k \in DOMAIN sentries :
          /\ sentries'[k].mEnabled = sentries[k].mEnabled
          /\ sentries'[k].outputEnabled = sentries[k].outputEnabled
    /\ \A i \in DOMAIN sentries, v \in Values \cup {Manip}, throws \in BOOLEAN :
          Put(i, v, throws) =>
             (CallsOfObject("put", i)' # CallsOfObject("put", i)
                <=> GotStart(sentries[i].msg))
    /\ \A i \in DOMAIN sentries :
          Destroy(i) =>
             (CallsOfObject("endMessage", i)' # CallsOfObject("endMessage", i)
                <=> GotStart(sentries[i].msg))

GotStartEnds ==
    \A k \in DOMAIN sentries :
       /\ (GotStart(sentries[k].msg) /\ sentries[k].state = "destroyed") =>
             CallsOfObject("endMessage", k) # {}
       /\ ~GotStart(sentries[k].msg) => AllCallsOfObject(k) = {}

C29_FixedAtConstruction == []GotStartEnds /\ [][C29_Step]_vars

\* setLevel has just raised the level of the logger above the level of an
\* open sentry that got startMessage, before any value was given to it
C29_Witness ==
    /\ lastCall.op = "setLevel"
    /\ \E k \in DOMAIN sentries :
          /\ sentries[k].state = "open" /\ sentries[k].nput = 0
          /\ GotStart(k)
          /\ sentries[k].level < mLevel[sentries[k].mSource]
          /\ sentries[k].mSource \in lastCall.changed


(***************************************************************************)
(* Log statements on loggers whose target is replaced while a statement    *)
(* is open, in a program that does not keep the targets it gave to the     *)
(* loggers.                                                                *)
(***************************************************************************)
\* a root logger made from a shared_ptr, or default-constructed: that one
\* made its target itself, and nothing else points to it
InitLifetime ==
    /\ InitWith({"TRACING"}, {LoggerRoot("cout", RootName), LoggerDefault}, {1})
    /\ ~NDEBUG

\* the program lets go of its shared_ptr to target t (reset, end of scope)
Release(t) ==
    /\ t \in holders
    /\ holders' = holders \ {t}
    /\ lastCall' = NoCall
    /\ UNCHANGED <<buildVars, pending, lockVars, stmt, multiVars, regVars, sentries, hooks, firstChild>>

NextLifetime ==
    \/ \E this \in Loggers : Child(this, <<"s", "v", "c">>)
    \/ \E this \in Loggers, t \in TargetArgs : SetTarget(this, t)
    \/ \E t \in TargetArgs : Release(t)
    \/ \E this \in Loggers, ll \in ExampleMessages \cap LogLevel : StartLog(MainThread, this, ll)
    \/ \E i \in DOMAIN sentries, v \in Values : Put(i, v, FALSE)
    \/ \E i \in DOMAIN sentries : Destroy(i)

SpecLifetime == InitLifetime /\ [][NextLifetime]_vars

(***************************************************************************)
(* C30: the target an open, enabled sentry is bound to is alive until the  *)
(* sentry has called endMessage, so every hook call of an open sentry is   *)
(* made on a live target, also when setTarget replaces the target on every *)
(* logger that had it and nothing outside the loggers holds it.            *)
(***************************************************************************)
C30_SinkAlive ==
    \A k \in DOMAIN sentries :
       (sentries[k].outputEnabled /\ sentries[k].mEnabled
          /\ sentries[k].state \in {"open", "unwinding"}) =>
             alive(Registry, holders, sentries[k].mTarget)


(***************************************************************************)
(* Logger::child(name) called by several threads without a lock: the       *)
(* lookup mChildren.find(name) and the insertion mChildren.insert(...) are *)
(* two steps, and steps of other threads may come in between.              *)
(***************************************************************************)
\* if (name.size() == 0) throw ...; auto child = mChildren.find(name);
childFind(reg, this, name) ==
    IF Len(name) = 0
    THEN [exc |-> "invalid_argument", child |-> nullptr]
    ELSE [exc |-> "none", child |-> mapFind(reg.mChildren[this], name)]

\* if (child == mChildren.end()) child = mChildren.insert(make_pair(name,
\* shared_ptr<Logger>(new Logger(name, mTarget, this, mLevel)))).first;
\* return child->second;  -- a logger that was not inserted is destroyed
\* with the pair that held it
childInsert(reg, this, name, found) ==
    IF found = nullptr
    THEN LET id   == newLogger(reg)
             made == LoggerChild(reg, id, name, reg.mTarget[this],
                                 this, reg.mLevel[this])
             m    == mapInsert(reg.mChildren[this], name, id)
         IN  IF <<name, id>> \in m
             THEN [ret |-> id, reg |-> [made EXCEPT !.mChildren[this] = m]]
             ELSE [ret |-> mapFind(m, name), reg |-> reg]
    ELSE [ret |-> found, reg |-> reg]

\* thread th enters l->child(name) and does the lookup
ChildFind(th, this, name) ==
    /\ pending[th].pc # "found"
    /\ LET r == childFind(Registry, this, name)
       IN  pending' = [pending EXCEPT ![th] =
              IF r.exc # "none"
              THEN [pc |-> "returned", this |-> this, name |-> name,
                    found |-> nullptr, ret |-> nullptr, exc |-> r.exc]
              ELSE [pc |-> "found", this |-> this, name |-> name,
                    found |-> r.child]]
    /\ lastCall' = NoCall
    /\ UNCHANGED <<buildVars, holders, lockVars, stmt, multiVars, regVars, sentries,
                   hooks, firstChild>>

\* thread th goes on after its lookup: inserts if it found nothing, returns
ChildInsert(th) ==
    /\ pending[th].pc = "found"
    /\ LET c == pending[th]
           r == childInsert(Registry, c.this, c.name, c.found)
       IN  /\ Cardinality(DOMAIN r.reg.mName) <= MaxNodes
           /\ SetRegistry(r.reg)
           /\ pending' = [pending EXCEPT ![th] =
                 [pc |-> "returned", this |-> c.this, name |-> c.name,
                  found |-> c.found, ret |-> r.ret, exc |-> "none"]]
    /\ lastCall' = NoCall
    /\ UNCHANGED <<buildVars, holders, lockVars, stmt, multiVars, sentries, hooks,
                   firstChild>>

NextRace ==
    \/ \E th \in Threads, this \in Loggers, name \in ChildNames \cup {EmptyName} :
          ChildFind(th, this, name)
    \/ \E th \in Threads : ChildInsert(th)

SpecRace == InitThreads /\ [][NextRace]_vars

(***************************************************************************)
(* C31: when calls of child(name) by two threads interleave, the lookup    *)
(* and the insertion each being one atomic step, a parent never has more   *)
(* than one entry for a name, and two calls with the same name on the same *)
(* parent return the same logger, the one the parent holds under the name. *)
(***************************************************************************)
C31_OneChildPerName ==
    /\ \A p \in Loggers : \A e, f \in mChildren[p] : e[1] = f[1] => e = f
    /\ \A th \in Threads :
          (pending[th].pc = "returned" /\ pending[th].exc = "none") =>
             <<pending[th].name, pending[th].ret>> \in mChildren[pending[th].this]
    /\ \A a, b \in Threads :
          (/\ pending[a].pc = "returned" /\ pending[b].pc = "returned"
           /\ pending[a].exc = "none" /\ pending[b].exc = "none"
           /\ pending[a].this = pending[b].this
           /\ pending[a].name = pending[b].name) =>
             pending[a].ret = pending[b].ret

\* both threads looked the name up under the same parent before either
\* inserted (both found nothing), and both have returned
C31_Witness ==
    \E a, b \in Threads :
       /\ a # b
       /\ pending[a].pc = "returned" /\ pending[b].pc = "returned"
       /\ pending[a].exc = "none" /\ pending[b].exc = "none"
       /\ pending[a].this = pending[b].this
       /\ pending[a].name = pending[b].name
       /\ pending[a].found = nullptr /\ pending[b].found = nullptr


(***************************************************************************)
(* Threads that may have to wait in startMessage: the call of              *)
(* LockType::lock() and its return are two steps.  Each thread executes    *)
(* one log statement after the other; a thread that runs goes on running,  *)
(* and the sentry of a statement is destroyed at the statement's end.      *)
(***************************************************************************)
\* the calls of startMessage that have not returned
Blocked == {th \in Threads : pending[th].pc = "startMessage"}

\* l << ll with ll enabled: the LogSentry constructor calls startMessage,
\* which calls lock()
CallStart(th, this, ll) ==
    /\ Len(sentries) + Cardinality(Blocked) < MaxSentries
    /\ stmt[th] = {}
    /\ pending[th].pc = "idle"
    /\ isEnabledLogLevel(Registry, this, ll)
    /\ pending' = [pending EXCEPT ![th] =
                      [pc |-> "startMessage", this |-> this, level |-> ll,
                       target |-> mTarget[this]]]
    /\ lastCall' = NoCall
    /\ UNCHANGED <<buildVars, holders, lockVars, stmt, multiVars, regVars, sentries,
                   hooks, firstChild>>

\* lock() returns to thread th: startMessage goes on and returns, the
\* constructor is done
StartReturns(th) ==
    /\ pending[th].pc = "startMessage"
    /\ LET c == pending[th]
           r == LogSentry(TRUE, hooks, Len(sentries) + 1, c.target, c.this,
                          c.level, TRUE)
       IN  /\ ~lockBlocks(lock, c.target, th)
           /\ sentries' = Append(sentries, r.sentry)
           /\ hooks' = r.hooks
           /\ lock' = lockAcquire(lock, c.target, th)
    /\ stmt' = [stmt EXCEPT ![th] = @ \cup {Len(sentries) + 1}]
    /\ pending' = [pending EXCEPT ![th] = [pc |-> "idle"]]
    /\ lastCall' = NoCall
    /\ UNCHANGED <<buildVars, holders, LockType, multiVars, regVars, firstChild>>

NextFair ==
    \/ \E this \in Loggers, level \in ExampleLevels \cap LogLevel : SetLevel(this, level)
    \/ \E this \in Loggers, t \in TargetArgs : SetTarget(this, t)
    \/ \E th \in Threads, this \in Loggers, ll \in ExampleMessages \cap LogLevel :
          CallStart(th, this, ll)
    \/ \E th \in Threads, this \in Loggers, ll \in ExampleMessages \cap LogLevel :
          /\ pending[th].pc = "idle"
          /\ Len(sentries) + Cardinality(Blocked) < MaxSentries
          /\ ~isEnabledLogLevel(Registry, this, ll)
          /\ StartLog(th, this, ll)
    \/ \E th \in Threads : StartReturns(th)
    \/ \E i \in DOMAIN sentries, v \in Values, throws \in BOOLEAN : Put(i, v, throws)
    \/ \E i \in DOMAIN sentries : Destroy(i)

SpecFair ==
    /\ InitThreads
    /\ [][NextFair]_vars
    /\ \A th \in 1 .. MaxThreads : WF_vars(StartReturns(th))
    /\ \A i \in 1 .. MaxSentries : WF_vars(i \in DOMAIN sentries /\ Destroy(i))

NextQuiet ==
    \/ \E level \in ExampleMessages \cap LogLevel : MultiStartMessage(level)
    \/ \E v \in Values : MultiPut(v)
    \/ MultiPutManip(Manip)
    \/ MultiEndMessage
    \/ \E index \in IndexArgs : RoutedOpen = 0 /\ SetActive(index)

SpecQuiet == InitMulti /\ [][NextQuiet]_vars

(***************************************************************************)
(* C33: when setActive is not called while a message is open on the        *)
(* MultiTarget, what each member receives is a sequence of whole messages: *)
(* a startMessage comes first or right after an endMessage; a put or an    *)
(* endMessage comes right after the startMessage or a put of the same      *)
(* message; and when no message is open every member's last call is an     *)
(* endMessage, so each startMessage has exactly one endMessage.            *)
(***************************************************************************)
\* log is a sequence of whole messages, the last one possibly still open
WellFormed(log) ==
    \A j \in DOMAIN log :
       IF log[j].hook = "startMessage"
       THEN j = 1 \/ log[j - 1].hook = "endMessage"
       ELSE /\ j > 1
            /\ log[j - 1].hook # "endMessage"
            /\ log[j - 1].by[1] = log[j].by[1]

C33_WellFormed ==
    \A i \in DOMAIN mSubtargets :
       /\ WellFormed(mSubtargets[i])
       /\ (RoutedOpen = 0 /\ mSubtargets[i] # << >>) =>
             mSubtargets[i][Len(mSubtargets[i])].hook = "endMessage"

\* two members have each received one whole message with a put
C33_Witness ==
    /\ RoutedOpen = 0
    /\ \E i, j \in DOMAIN mSubtargets :
          /\ i # j
          /\ Len(mSubtargets[i]) = 3 /\ mSubtargets[i][2].hook = "put"
          /\ Len(mSubtargets[j]) = 3 /\ mSubtargets[j][2].hook = "put"


(***************************************************************************)
(* A root logger made by either public constructor, in every build of both *)
(* logger types, its children, and the queries and statements on them:     *)
(* setLevel is not called.                                                 *)
(***************************************************************************)
InitFresh ==
    InitWith({"TRACING", "!TRACING"},
             {LoggerRoot("cout", EmptyName), LoggerRoot("cout", RootName),
              LoggerDefault}, {1})

NextFresh ==
    \/ \E this \in Loggers, name \in ChildNames : Child(this, name)
    \/ \E this \in Loggers, level \in LogLevel : IsEnabledLogLevel(this, level)
    \/ \E this \in Loggers, level \in TraceLevel : IsEnabledTraceLevel(this, level)
    \/ \E this \in Loggers, ll \in LogLevel : StartLog(MainThread, this, ll)
    \/ \E this \in Loggers, tl \in TraceLevel : StartTrace(MainThread, this, tl)
    \/ \E i \in DOMAIN sentries : Destroy(i)

SpecFresh == InitFresh /\ [][NextFresh]_vars

(***************************************************************************)
(* C34: a root logger made by either public constructor starts with level  *)
(* LEVEL_INFO, no parent and no children; as long as setLevel is not       *)
(* called, on the root and on every logger made from it by child(),        *)
(* isEnabled is true for every log level and false for every trace level,  *)
(* every log message is forwarded to the target and no trace message is.   *)
(***************************************************************************)
C34_NewRoot ==
    /\ Loggers = {Root}
    /\ mLevel[Root] = LEVEL_INFO
    /\ mParent[Root] = nullptr
    /\ mChildren[Root] = {}

C34_Defaults ==
    /\ \A n \in Loggers :
          /\ mLevel[n] = LEVEL_INFO
          /\ \A ll \in LogLevel : isEnabledLogLevel(Registry, n, ll)
          /\ \A tl \in TraceLevel : ~isEnabledTraceLevel(Registry, n, tl)
    /\ lastCall.op = "isEnabled" => (lastCall.ret <=> lastCall.level \in LogLevel)
    /\ \A k \in DOMAIN sentries :
          /\ sentries[k].level \in LogLevel => CallsOfMessage("startMessage", k) # {}
          /\ sentries[k].level \in TraceLevel => AllCallsOfObject(k) = {}

C34_FreshLogger == C34_NewRoot /\ []C34_Defaults

\* with the trace flag on and a default-constructed root: a trace message
\* through a child made no call, then a log message through it was started
C34_Witness ==
    /\ trace
    /\ mTarget[Root] = DefaultTarget
    /\ Len(sentries) = 2
    /\ sentries[1].level \in TraceLevel
    /\ sentries[1].outputEnabled /\ AllCallsOfObject(1) = {}
    /\ sentries[2].level \in LogLevel /\ sentries[2].state = "open"
    /\ sentries[2].mSource # Root
    /\ StartedOn(2) = {DefaultTarget}


(***************************************************************************)
(* SyslogTarget<LockType>: the buffer mOs, the level mLevel of the message *)
(* being written, and the calls of syslog() made so far.  The buffer is a  *)
(* sequence of the pieces written to it.                                   *)
(***************************************************************************)
\* levelName(TraceLevel), levelName(LogLevel) of logging_utils.hxx
levelName(l) ==
    IF l \in TraceLevel
    THEN IF l = LEVEL_TRACE THEN "TRACE" ELSE "DEBUG"
    ELSE CASE l = LEVEL_INFO    -> "INFO"
           [] l = LEVEL_WARNING -> "WARNING"
           [] l = LEVEL_ERROR   -> "ERROR"
           [] l = LEVEL_FATAL   -> "FATAL"

\* SyslogTarget(option, facility): mLevel is not initialised
SyslogTarget == [mOs |-> << >>, mLevel |-> NoLevel, syslog |-> << >>]

\* the switch in endMessage
syslogPriority(l) ==
    CASE l = LEVEL_TRACE   -> "LOG_DEBUG"
      [] l = LEVEL_DEBUG   -> "LOG_DEBUG"
      [] l = LEVEL_INFO    -> "LOG_INFO"
      [] l = LEVEL_WARNING -> "LOG_WARNING"
      [] l = LEVEL_ERROR   -> "LOG_ERR"
      [] l = LEVEL_FATAL   -> "LOG_EMERG"
      [] OTHER             -> "0"

\* startMessage: mOs << '[' << levelName(ll) << "] "; mLevel = ll
syslogStartMessage(st, l) ==
    [st EXCEPT !.mOs = @ \o <<"[", levelName(l), "] ">>, !.mLevel = l]

\* put: mOs << v
syslogPut(st, v) == [st EXCEPT !.mOs = Append(@, v)]

\* endMessage: syslog(level, "%s", mOs.str().c_str()); mOs.str(std::string())
syslogEndMessage(st) ==
    [st EXCEPT !.syslog = Append(@, [priority |-> syslogPriority(st.mLevel),
                                     text |-> st.mOs]),
               !.mOs = << >>]

RECURSIVE SyslogAfter(_, _)
\* the SyslogTarget after the first n of the hook calls of log
SyslogAfter(log, n) ==
    IF n = 0 THEN SyslogTarget
    ELSE LET st == SyslogAfter(log, n - 1)
             c  == log[n]
         IN  CASE c.hook = "startMessage" -> syslogStartMessage(st, c.level)
               [] c.hook = "endMessage"   -> syslogEndMessage(st)
               [] OTHER                   -> syslogPut(st, c.value)

(***************************************************************************)
(* Log statements of one thread on a SyslogTarget without a lock; a value  *)
(* given to a sentry may itself be computed by code that logs, so that a   *)
(* statement runs inside another and ends before it.                       *)
(***************************************************************************)
\* the sentries of thread th that are not destroyed
OpenOf(th) == {k \in stmt[th] : sentries[k].state \in {"open", "unwinding"}}

\* l << ll executed while a statement of the same thread is open
StartNested(th, this, ll) ==
    /\ Len(sentries) < MaxSentries
    /\ OpenOf(th) # {}
    /\ pending[th].pc = "idle"
    /\ LET r == shlLogLevel(Registry, hooks, Len(sentries) + 1, this, ll)
           called == r.hooks # hooks
       IN  /\ called => ~lockBlocks(lock, mTarget[this], th)
           /\ sentries' = Append(sentries, r.sentry)
           /\ hooks' = r.hooks
           /\ lock' = IF called THEN lockAcquire(lock, mTarget[this], th) ELSE lock
    /\ stmt' = [stmt EXCEPT ![th] = @ \cup {Len(sentries) + 1}]
    /\ lastCall' = NoCall
    /\ UNCHANGED <<buildVars, holders, pending, LockType, multiVars, regVars, firstChild>>

NextSyslog ==
    \/ \E this \in Loggers, level \in ExampleLevels : SetLevel(this, level)
    \/ \E this \in Loggers, ll \in ExampleLevels \cap LogLevel : StartLog(MainThread, this, ll)
    \/ \E this \in Loggers, ll \in ExampleLevels \cap LogLevel : StartNested(MainThread, this, ll)
    \/ \E i \in DOMAIN sentries, v \in Values \cup {Manip} :
          (\A k \in OpenOf(MainThread) : k <= i) /\ Put(i, v, FALSE)
    \/ \E i \in DOMAIN sentries :
          (\A k \in OpenOf(MainThread) : k <= i) /\ Destroy(i)

SpecSyslog == InitTargets /\ [][NextSyslog]_vars

(***************************************************************************)
(* C35: what SyslogTarget hands to syslog at an endMessage is the level    *)
(* tag of the message that ends followed by the values put for that        *)
(* message, and nothing else; the buffer is empty whenever no message is   *)
(* open on the target: nothing of one message appears in another.          *)
(***************************************************************************)
RECURSIVE PutsOf(_, _, _)
\* the values put for message m among the first n hook calls of log
PutsOf(log, m, n) ==
    IF n = 0 THEN << >>
    ELSE IF log[n].hook = "put" /\ log[n].by[1] = m
         THEN Append(PutsOf(log, m, n - 1), log[n].value)
         ELSE PutsOf(log, m, n - 1)

\* the positions of the endMessage calls in log, in order
EndsIn(log) == {n \in DOMAIN log : log[n].hook = "endMessage"}

C35_SyslogText ==
    \A t \in Targets :
       LET log == hooks[t]
       IN  /\ \A n \in EndsIn(log) :
                 LET m     == log[n].by[1]
                     j     == Cardinality({e \in EndsIn(log) : e <= n})
                     start == CHOOSE c \in DOMAIN log :
                                 log[c].hook = "startMessage" /\ log[c].by[1] = m
                 IN  SyslogAfter(log, n).syslog[j].text =
                        <<"[", levelName(log[start].level), "] ">> \o PutsOf(log, m, n)
           /\ OpenOn(t) = {} => SyslogAfter(log, Len(log)).mOs = << >>


====
